---- MODULE Spec2Model ----
(***************************************************************************)
(* Node-graph editor of the presentation builder: the node store           *)
(* (NodeManager), the connection manager, the application state store,    *)
(* the canvas viewport and the mouse / keyboard handlers that drive them.  *)
(* Coordinates are exact rationals [n, d] with d > 0 in lowest terms.      *)
(***************************************************************************)
EXTENDS Integers, Sequences, FiniteSets, TLC

(***************************************************************************)
(* Bounds of the model.                                                    *)
(***************************************************************************)
MaxNodeId == 2
MaxConnId == 2
MaxPan == 300
MaxZoomOps == 2
MaxFlowNodes == 3
MaxFlowConns == 2
MaxUnsupported == 8
MaxSnapHalves == 30
MaxTemplateNodes == 3
MaxTemplateConns == 2
MaxViewportSize == 40000
MaxProjects == 2
MaxHistory == 3

(***************************************************************************)
(* Rational arithmetic.                                                    *)
(***************************************************************************)
RECURSIVE GCD(_, _)
GCD(a, b) == IF b = 0 THEN a ELSE GCD(b, a % b)

IAbs(i) == IF i < 0 THEN -i ELSE i

Norm(n, d) ==
  LET g == GCD(IAbs(n), IAbs(d))
      s == IF d < 0 THEN -1 ELSE 1
  IN [n |-> s * (n \div g), d |-> s * (d \div g)]

R(i) == [n |-> i, d |-> 1]
Frac(a, b) == Norm(a, b)
\* Common factors are cancelled before multiplying, to keep the products small.
RMul(p, q) ==
  LET g1 == GCD(IAbs(p.n), q.d)
      g2 == GCD(IAbs(q.n), p.d)
  IN Norm((p.n \div g1) * (q.n \div g2), (p.d \div g2) * (q.d \div g1))
RNeg(p) == [n |-> -p.n, d |-> p.d]
RAdd(p, q) ==
  LET g == GCD(p.d, q.d)
  IN Norm(p.n * (q.d \div g) + q.n * (p.d \div g), (p.d \div g) * q.d)
RSub(p, q) == RAdd(p, RNeg(q))
RDiv(p, q) ==
  RMul(p, IF q.n < 0 THEN [n |-> -q.d, d |-> -q.n] ELSE [n |-> q.d, d |-> q.n])
RLt(p, q) ==
  LET g == GCD(p.d, q.d)
  IN p.n * (q.d \div g) < q.n * (p.d \div g)
RLe(p, q) ==
  LET g == GCD(p.d, q.d)
  IN p.n * (q.d \div g) <= q.n * (p.d \div g)
RAbs(p) == [n |-> IAbs(p.n), d |-> p.d]
RMin(p, q) == IF RLe(p, q) THEN p ELSE q
RMax(p, q) == IF RLe(p, q) THEN q ELSE p
RFloor(p) == p.n \div p.d
\* Math.round: nearest integer, halves towards +infinity
RRound(p) == RFloor(RAdd(p, Frac(1, 2)))
\* a || b on numbers: 0 is falsy
JsOr(a, b) == IF a.n = 0 THEN b ELSE a

(***************************************************************************)
(* Program constants and environment values.                               *)
(***************************************************************************)
CanvasWidth == 800
CanvasHeight == 600
gridSize == 20
maxLines == 100
maxHistory == 50
NoProject == 0
minZoom == Frac(1, 10)
maxZoom == R(10)
zoomFactor == Frac(11, 10)
DefaultWidth == 200
DefaultHeight == 150

NoNode == 0
NoPoint == <<>>

\* Screen positions of mouse events (pixels relative to the canvas).
ScreenPts == {<<450, 350>>, <<750, 350>>}

\* Templates: node data (position, size) and connections between the
\* template-authored ids node-1, node-2, ... (index + 1).
Templates ==
  [ pair  |-> [nodes |-> << [x |-> 100, y |-> 300, w |-> 200, h |-> 150],
                            [x |-> 400, y |-> 300, w |-> 200, h |-> 150] >>,
               connections |-> << [startNodeId |-> 1, endNodeId |-> 2] >>],
    blank |-> [nodes |-> << [x |-> 100, y |-> 300, w |-> 200, h |-> 150] >>,
               connections |-> << >>] ]

\* Arguments of importConnections: results of exportConnections() of an
\* earlier session (unique unordered pairs, no self-loop, ids of that session).
ImportData ==
  { [connections |-> << >>],
    [connections |-> << [id |-> 101, startNodeId |-> 1, endNodeId |-> 2] >>] }

VARIABLES
  nodes,            \* NodeManager.nodes, in insertion order
  selectedNode,     \* NodeManager.selectedNode (id, NoNode for null)
  nmDragging,       \* NodeManager.isDragging
  dragOffset,       \* NodeManager.dragOffset
  viewport,         \* CanvasManager.viewport
  cmDragging,       \* CanvasManager.isDragging
  dragStart,        \* CanvasManager.dragStart (= lastMousePos while pressed)
  isAnimating,      \* CanvasManager.isAnimating
  anim,             \* the scheduled zoom animation frame callback
  connections,      \* ConnectionManager.connections, in insertion order
  isConnecting,     \* ConnectionManager.isConnecting
  connectionStart,  \* ConnectionManager.connectionStart (id of the node)
  connectionMode,   \* ConnectionManager.connectionMode
  stNodes,          \* StateManager.state.nodes
  stConnections,    \* StateManager.state.connections
  stSelected,       \* StateManager.state.selectedNode
  zoomOps,          \* number of zoom requests so far
  zoomed,           \* the focused zoom request completed by the last viewport change
  zoomTarget,       \* clamped target scale of the latest zoom request
  created,          \* ids of the nodes of NodeManager.nodes in creation order
  renderLoop,       \* NodeManager's render loop: is the next frame requested
  tsState,          \* StateManager.state of the TypeScript application
  lastOp            \* the last operation and its outcome

vars == << nodes, selectedNode, nmDragging, dragOffset, viewport, cmDragging,
           dragStart, isAnimating, anim, connections, isConnecting,
           connectionStart, connectionMode, stNodes, stConnections,
           stSelected, zoomOps, zoomed, zoomTarget, created, renderLoop,
           tsState, lastOp >>

graphVars == << nodes, selectedNode, connections, stNodes, stConnections,
                stSelected, isConnecting,
                connectionStart, connectionMode, created, renderLoop,
                tsState >>
mouseVars == << nmDragging, dragOffset, cmDragging, dragStart >>
zoomVars == << isAnimating, anim, zoomOps, zoomed, zoomTarget >>

\* The render loop after NodeManager's constructor: the first frame is
\* requested; app is whether window.app names the application.
RenderLoopStarted(app) == [scheduled |-> TRUE, app |-> app]

\* StateManager.createInitialState of the TypeScript application.
TsInitialState ==
  [currentProject |-> NoProject, history |-> [past |-> << >>, future |-> << >>]]

NoAnim == [kind |-> "none"]
NoZoomed == [focusPoint |-> NoPoint]
NoTarget == R(0)

(***************************************************************************)
(* Sequence helpers for the insertion-ordered Maps.                        *)
(***************************************************************************)
Range(s) == {s[i] : i \in 1..Len(s)}
Ids(s) == {s[i].id : i \in 1..Len(s)}
HasId(s, id) == \E i \in 1..Len(s) : s[i].id = id
Get(s, id) == s[CHOOSE i \in 1..Len(s) : s[i].id = id]
Remove(s, id) == SelectSeq(s, LAMBDA e : e.id # id)
Reverse(s) == [i \in 1..Len(s) |-> s[Len(s) + 1 - i]]

MapSet(s, e) ==
  IF HasId(s, e.id)
  THEN [i \in 1..Len(s) |-> IF s[i].id = e.id THEN e ELSE s[i]]
  ELSE Append(s, e)

\* The part of the state the node and connection operations work on;
\* feedback is the feedback path taken by the operation in progress.
Graph == [nodes |-> nodes, selectedNode |-> selectedNode,
          connections |-> connections, stNodes |-> stNodes,
          stConnections |-> stConnections, stSelected |-> stSelected,
          isConnecting |-> isConnecting, connectionStart |-> connectionStart,
          connectionMode |-> connectionMode, created |-> created,
          renderLoop |-> renderLoop, tsState |-> tsState,
          feedback |-> "none", ret |-> "none"]

SetGraph(g) ==
  /\ nodes' = g.nodes
  /\ selectedNode' = g.selectedNode
  /\ connections' = g.connections
  /\ stNodes' = g.stNodes
  /\ stConnections' = g.stConnections
  /\ stSelected' = g.stSelected
  /\ isConnecting' = g.isConnecting
  /\ connectionStart' = g.connectionStart
  /\ connectionMode' = g.connectionMode
  /\ created' = g.created
  /\ renderLoop' = g.renderLoop
  /\ tsState' = g.tsState

Op(op, a, b, out) == [op |-> op, a |-> a, b |-> b, out |-> out]

(***************************************************************************)
(* StateManager                                                            *)
(***************************************************************************)
State_addNode(g, node) == [g EXCEPT !.stNodes = MapSet(@, node)]

State_updateNode(g, nodeId, node) ==
  IF HasId(g.stNodes, nodeId)
  THEN [g EXCEPT !.stNodes = MapSet(@, node)]
  ELSE g

State_removeNode(g, nodeId) ==
  IF HasId(g.stNodes, nodeId)
  THEN [g EXCEPT !.stNodes = Remove(@, nodeId),
                 !.stSelected = IF @ = nodeId THEN NoNode ELSE @]
  ELSE g

State_addConnection(g, connection) ==
  [g EXCEPT !.stConnections = MapSet(@, connection)]

State_removeConnection(g, connectionId) ==
  [g EXCEPT !.stConnections = Remove(@, connectionId)]

(***************************************************************************)
(* ConnectionManager: the connection store                                 *)
(***************************************************************************)
getConnectionsForNode_startOnly(conns, nodeId) ==
  SelectSeq(conns, LAMBDA c : c.startNodeId = nodeId)

getConnectionsForNode(conns, nodeId) ==
  SelectSeq(conns, LAMBDA c : c.startNodeId = nodeId \/ c.endNodeId = nodeId)

findConnection_directed(conns, startNodeId, endNodeId) ==
  LET hits == {i \in 1..Len(conns) :
                 conns[i].startNodeId = startNodeId /\ conns[i].endNodeId = endNodeId}
  IN IF hits = {} THEN 0
     ELSE conns[CHOOSE i \in hits : \A j \in hits : i <= j].id

findConnection(conns, startNodeId, endNodeId) ==
  LET hits == {i \in 1..Len(conns) :
                 \/ conns[i].startNodeId = startNodeId /\ conns[i].endNodeId = endNodeId
                 \/ conns[i].startNodeId = endNodeId /\ conns[i].endNodeId = startNodeId}
  IN IF hits = {} THEN 0
     ELSE conns[CHOOSE i \in hits : \A j \in hits : i <= j].id

createConnection_swapped(id, startNodeId, endNodeId) ==
  [id |-> id, startNodeId |-> endNodeId, endNodeId |-> startNodeId]

\* Builds the connection object; it performs no check and stores nothing.
createConnection(id, startNodeId, endNodeId) ==
  [id |-> id, startNodeId |-> startNodeId, endNodeId |-> endNodeId]

handleConnectionDelete(g, connectionId) == State_removeConnection(g, connectionId)

deleteConnection(g, connectionId) ==
  IF HasId(g.connections, connectionId)
  THEN handleConnectionDelete(
         [g EXCEPT !.connections = Remove(@, connectionId), !.ret = "true"],
         connectionId)
  ELSE [g EXCEPT !.ret = "false"]

RECURSIVE deleteConnections(_, _)
deleteConnections(g, conns) ==
  IF conns = << >> THEN g
  ELSE deleteConnections(deleteConnection(g, Head(conns).id), Tail(conns))

(***************************************************************************)
(* App callbacks of the node store                                         *)
(***************************************************************************)
handleNodeCreate(g, node) == State_addNode(g, node)

handleNodeUpdate(g, node) == State_updateNode(g, node.id, node)

handleNodeDelete(g, nodeId) ==
  State_removeNode(
    deleteConnections(g, getConnectionsForNode(g.connections, nodeId)),
    nodeId)

handleNodeSelect(g, nodeId) == [g EXCEPT !.stSelected = nodeId]

(***************************************************************************)
(* NodeManager                                                             *)
(***************************************************************************)
\* Ids are timestamp-and-random strings: a generated id differs from every
\* id something still refers to.  The least such number stands for it.
EndpointIds(conns) ==
  {conns[i].startNodeId : i \in 1..Len(conns)} \cup
  {conns[i].endNodeId : i \in 1..Len(conns)}

UsedNodeIds(g) ==
  Ids(g.nodes) \cup Ids(g.stNodes) \cup EndpointIds(g.connections) \cup
  EndpointIds(g.stConnections) \cup
  {g.selectedNode, g.stSelected, g.connectionStart}

FreeNodeIds(g) == (1..MaxNodeId) \ UsedNodeIds(g)

LeastOf(S) == CHOOSE i \in S : \A j \in S : i <= j

generateId(g) == LeastOf(FreeNodeIds(g))

UsedConnIds(g) == Ids(g.connections) \cup Ids(g.stConnections)

FreeConnIds(g) == (1..(MaxConnId + 1)) \ UsedConnIds(g)

generateConnectionId(g) == LeastOf(FreeConnIds(g))

\* nodeData.id = NoNode stands for a nodeData without id (generateId is used)
NodeManager_createNode(g, nodeData) ==
  LET id == IF nodeData.id # NoNode THEN nodeData.id ELSE generateId(g)
      node == [id |-> id, x |-> nodeData.x, y |-> nodeData.y,
               w |-> nodeData.w, h |-> nodeData.h]
  IN handleNodeCreate(
       [g EXCEPT !.nodes = MapSet(@, node),
                 !.created = Append(SelectSeq(@, LAMBDA i : i # id), id),
                 !.ret = "node"],
       node)

\* updateNode(nodeId, {position})
NodeManager_updateNode(g, nodeId, pos) ==
  IF HasId(g.nodes, nodeId)
  THEN LET node == [Get(g.nodes, nodeId) EXCEPT !.x = pos[1], !.y = pos[2]]
       IN handleNodeUpdate([g EXCEPT !.nodes = MapSet(@, node), !.ret = "node"],
                           node)
  ELSE [g EXCEPT !.ret = "null"]

updateNodeSize_upsert(g, nodeId, size) ==
  LET old == IF HasId(g.nodes, nodeId) THEN Get(g.nodes, nodeId)
             ELSE [id |-> nodeId, x |-> R(0), y |-> R(0), w |-> 0, h |-> 0]
      node == [old EXCEPT !.w = size[1], !.h = size[2]]
  IN handleNodeUpdate([g EXCEPT !.nodes = MapSet(@, node), !.ret = "node"], node)

\* updateNode(nodeId, {size: {width, height}})
updateNodeSize(g, nodeId, size) ==
  IF HasId(g.nodes, nodeId)
  THEN LET node == [Get(g.nodes, nodeId) EXCEPT !.w = size[1], !.h = size[2]]
       IN handleNodeUpdate([g EXCEPT !.nodes = MapSet(@, node), !.ret = "node"],
                           node)
  ELSE [g EXCEPT !.ret = "null"]

NodeManager_deleteNode(g, nodeId) ==
  IF HasId(g.nodes, nodeId)
  THEN [handleNodeDelete(
          [g EXCEPT !.nodes = Remove(@, nodeId),
                    !.created = SelectSeq(@, LAMBDA i : i # nodeId),
                    !.selectedNode = IF @ = nodeId THEN NoNode ELSE @],
          nodeId)
        EXCEPT !.ret = "true"]
  ELSE [g EXCEPT !.ret = "false"]

selectNode(g, nodeId) ==
  handleNodeSelect([g EXCEPT !.selectedNode = nodeId], nodeId)

deselectAll(g) ==
  handleNodeSelect([g EXCEPT !.selectedNode = NoNode], NoNode)

isPointInNode(x, y, node) ==
  /\ RLe(node.x, x)
  /\ RLe(x, RAdd(node.x, R(node.w)))
  /\ RLe(node.y, y)
  /\ RLe(y, RAdd(node.y, R(node.h)))

\* First hit in a list of nodes, NoNode when none is hit.
FirstHit(ns, x, y) ==
  LET hits == {i \in 1..Len(ns) : isPointInNode(x, y, ns[i])}
  IN IF hits = {} THEN NoNode
     ELSE ns[CHOOSE i \in hits : \A j \in hits : i <= j].id

getNodeAtPosition_forward(ns, x, y) == FirstHit(ns, x, y)

getNodeAtPosition(ns, x, y) == FirstHit(Reverse(ns), x, y)

\* ConnectionManager.findNodeAtPosition
findNodeAtPosition(ns, x, y) == FirstHit(ns, x, y)

(***************************************************************************)
(* CanvasManager: coordinate transforms                                    *)
(***************************************************************************)
screenToWorld(v, screenX, screenY) ==
  << RDiv(RSub(screenX, v.x), v.scale), RDiv(RSub(screenY, v.y), v.scale) >>

worldToScreen(v, worldX, worldY) ==
  << RAdd(RMul(worldX, v.scale), v.x), RAdd(RMul(worldY, v.scale), v.y) >>

clampZoom(scale) == RMax(minZoom, RMin(maxZoom, scale))

snapCoord_always(x) == R(RRound(RDiv(x, R(gridSize))) * gridSize)

snapCoord(x) ==
  LET threshold == RMul(R(gridSize), Frac(3, 10))
      grid == R(RRound(RDiv(x, R(gridSize))) * gridSize)
  IN IF RLt(RAbs(RSub(x, grid)), threshold) THEN grid ELSE x

snapToGrid(x, y) == << snapCoord(x), snapCoord(y) >>

(***************************************************************************)
(* ConnectionManager: the connect gesture                                  *)
(***************************************************************************)
startConnection(g, nodeId) ==
  [g EXCEPT !.isConnecting = TRUE, !.connectionStart = nodeId,
            !.feedback = "started"]

cancelConnection_keepStart(g) == [g EXCEPT !.isConnecting = FALSE]

cancelConnection(g) ==
  [g EXCEPT !.isConnecting = FALSE, !.connectionStart = NoNode]

exitConnectionMode(g) == [g EXCEPT !.connectionMode = FALSE]

handleConnectionCreate(g, connection) == State_addConnection(g, connection)

\* the branch of completeConnection that creates, stores and announces
StoreNewConnection(g, endNodeId) ==
  LET connection == createConnection(generateConnectionId(g),
                                     g.connectionStart, endNodeId)
  IN handleConnectionCreate(
       [g EXCEPT !.connections = MapSet(@, connection),
                 !.feedback = "created"],
       connection)

completeConnection_noSelfCheck(g, endNodeId) ==
  cancelConnection(
    IF g.connectionStart # NoNode /\ endNodeId # NoNode
    THEN IF findConnection(g.connections, g.connectionStart, endNodeId) = 0
         THEN StoreNewConnection(g, endNodeId)
         ELSE [g EXCEPT !.feedback = "exists"]
    ELSE [g EXCEPT !.feedback = "ignored"])

completeConnection_noDuplicateCheck(g, endNodeId) ==
  cancelConnection(
    IF g.connectionStart # NoNode /\ endNodeId # NoNode
       /\ g.connectionStart # endNodeId
    THEN StoreNewConnection(g, endNodeId)
    ELSE [g EXCEPT !.feedback = "ignored"])

completeConnection(g, endNodeId) ==
  LET g1 ==
        IF g.connectionStart # NoNode /\ endNodeId # NoNode
           /\ g.connectionStart # endNodeId
        THEN IF findConnection(g.connections, g.connectionStart, endNodeId) = 0
             THEN StoreNewConnection(g, endNodeId)
             ELSE [g EXCEPT !.feedback = "exists"]
        ELSE [g EXCEPT !.feedback = "ignored"]
  IN cancelConnection(g1)

handleConnectionClick(g, v, p) ==
  LET mousePos == screenToWorld(v, R(p[1]), R(p[2]))
      clickedNode == findNodeAtPosition(g.nodes, mousePos[1], mousePos[2])
  IN IF clickedNode # NoNode
     THEN IF ~g.isConnecting
          THEN startConnection(g, clickedNode)
          ELSE completeConnection(g, clickedNode)
     ELSE IF g.isConnecting
          THEN [cancelConnection(g) EXCEPT !.feedback = "cancelled"]
          ELSE g

toggleConnectionMode(g) ==
  LET g1 == [g EXCEPT !.connectionMode = ~@]
  IN IF ~g1.connectionMode THEN cancelConnection(g1) ELSE g1

(***************************************************************************)
(* Initial state: the constructors have run, no saved project was loaded.  *)
(***************************************************************************)
InitViewport == [x |-> R(0), y |-> R(0), scale |-> R(1),
                 width |-> CanvasWidth, height |-> CanvasHeight]

\* app: has the page published the application object as window.app.
InitPage(app) ==
  /\ nodes = << >>
  /\ selectedNode = NoNode
  /\ nmDragging = FALSE
  /\ dragOffset = << R(0), R(0) >>
  /\ viewport = InitViewport
  /\ cmDragging = FALSE
  /\ dragStart = << 0, 0 >>
  /\ isAnimating = FALSE
  /\ anim = NoAnim
  /\ connections = << >>
  /\ isConnecting = FALSE
  /\ connectionStart = NoNode
  /\ connectionMode = FALSE
  /\ stNodes = << >>
  /\ stConnections = << >>
  /\ stSelected = NoNode
  /\ zoomOps = 0
  /\ zoomed = NoZoomed
  /\ zoomTarget = NoTarget
  /\ created = << >>
  /\ renderLoop = RenderLoopStarted(app)
  /\ tsState = TsInitialState
  /\ lastOp = Op("other", 0, 0, "none")

Init == InitPage(TRUE)

(***************************************************************************)
(* Node creation and deletion                                              *)
(***************************************************************************)
\* App.createNode: toolbar button or Ctrl+N
App_createNode(g, v) ==
  LET centerX == RAdd(RSub(R(0), v.x), RDiv(Frac(v.width, 2), v.scale))
      centerY == RAdd(RSub(R(0), v.y), RDiv(Frac(v.height, 2), v.scale))
      nodeData == [id |-> NoNode, x |-> centerX, y |-> centerY,
                   w |-> DefaultWidth, h |-> DefaultHeight]
      g1 == NodeManager_createNode(g, nodeData)
  IN selectNode(g1, generateId(g))

CreateNode ==
  /\ FreeNodeIds(Graph) # {}
  /\ SetGraph(App_createNode(Graph, viewport))
  /\ lastOp' = Op("other", 0, 0, "none")
  /\ UNCHANGED << mouseVars, viewport, zoomVars >>

\* Number of connections that name nodeId as an endpoint.
Referencing(conns, nodeId) ==
  Cardinality({i \in 1..Len(conns) :
                 conns[i].startNodeId = nodeId \/ conns[i].endNodeId = nodeId})

\* App.handleKeyDown: Delete or Backspace
DeleteKey ==
  /\ stSelected # NoNode
  /\ SetGraph(NodeManager_deleteNode(Graph, stSelected))
  /\ lastOp' = Op("deleteNode", stSelected, Referencing(connections, stSelected),
                  IF HasId(nodes, stSelected) THEN "true" ELSE "false")
  /\ UNCHANGED << mouseVars, viewport, zoomVars >>

\* App.deleteNode: the delete-node event of the property panel
DeleteNodeEvent(nodeId) ==
  /\ SetGraph(NodeManager_deleteNode(Graph, nodeId))
  /\ lastOp' = Op("deleteNode", nodeId, Referencing(connections, nodeId),
                  IF HasId(nodes, nodeId) THEN "true" ELSE "false")
  /\ UNCHANGED << mouseVars, viewport, zoomVars >>

(***************************************************************************)
(* Mouse: the canvas listeners run in registration order, CanvasManager    *)
(* first, then NodeManager, and a click follows the mouseup.               *)
(***************************************************************************)
MouseDown(p) ==
  /\ ~cmDragging
  /\ cmDragging' = TRUE
  /\ dragStart' = p
  /\ LET worldPos == screenToWorld(viewport, R(p[1]), R(p[2]))
         clickedNode == getNodeAtPosition(nodes, worldPos[1], worldPos[2])
     IN IF clickedNode # NoNode
        THEN /\ SetGraph(selectNode(Graph, clickedNode))
             /\ nmDragging' = TRUE
             /\ dragOffset' = << RSub(worldPos[1], Get(nodes, clickedNode).x),
                                 RSub(worldPos[2], Get(nodes, clickedNode).y) >>
        ELSE /\ SetGraph(deselectAll(Graph))
             /\ UNCHANGED << nmDragging, dragOffset >>
  /\ lastOp' = Op("other", 0, 0, "none")
  /\ UNCHANGED << viewport, zoomVars >>

CanvasManager_handleMouseMove(v, p) ==
  [v EXCEPT !.x = RAdd(@, R(p[1] - dragStart[1])),
            !.y = RAdd(@, R(p[2] - dragStart[2]))]

NodeManager_handleMouseMove(g, v, p) ==
  LET worldPos == screenToWorld(v, R(p[1]), R(p[2]))
  IN IF nmDragging /\ g.selectedNode # NoNode
     THEN LET newX == RSub(worldPos[1], dragOffset[1])
              newY == RSub(worldPos[2], dragOffset[2])
          IN NodeManager_updateNode(g, g.selectedNode, snapToGrid(newX, newY))
     ELSE g

MouseMove(p) ==
  /\ cmDragging
  /\ p # dragStart
  /\ LET v == CanvasManager_handleMouseMove(viewport, p)
     IN /\ RLe(RAbs(v.x), R(MaxPan)) /\ RLe(RAbs(v.y), R(MaxPan))
        /\ viewport' = v
        /\ SetGraph(NodeManager_handleMouseMove(Graph, v, p))
  /\ dragStart' = p
  /\ lastOp' = Op("other", 0, 0, "none")
  /\ UNCHANGED << nmDragging, dragOffset, cmDragging, zoomVars >>

\* A click that creates a connection is taken while ids up to MaxConnId last.
MouseUp ==
  /\ cmDragging
  /\ cmDragging' = FALSE
  /\ nmDragging' = FALSE
  /\ LET worldPos == screenToWorld(viewport, R(dragStart[1]), R(dragStart[2]))
         g == IF connectionMode
              THEN handleConnectionClick(Graph, viewport, dragStart)
              ELSE Graph
     IN /\ Ids(g.connections) \ Ids(connections) \subseteq 1..MaxConnId
        /\ SetGraph(g)
        /\ lastOp' = IF connectionMode
                      THEN Op("click",
                              findNodeAtPosition(nodes, worldPos[1], worldPos[2]),
                              connectionStart, g.feedback)
                      ELSE Op("other", 0, 0, "none")
  /\ UNCHANGED << dragOffset, dragStart, viewport, zoomVars >>

(***************************************************************************)
(* Keyboard: connect mode                                                  *)
(***************************************************************************)
\* Ctrl+C
ToggleConnectionMode ==
  /\ SetGraph(toggleConnectionMode(Graph))
  /\ lastOp' = Op("other", 0, 0, "none")
  /\ UNCHANGED << mouseVars, viewport, zoomVars >>

\* Escape: ConnectionManager's listener, then App.handleKeyDown
EscapeKey ==
  /\ SetGraph(deselectAll(exitConnectionMode(cancelConnection(Graph))))
  /\ lastOp' = Op("escape", 0, connectionStart, "none")
  /\ UNCHANGED << mouseVars, viewport, zoomVars >>

(***************************************************************************)
(* Connection import                                                       *)
(***************************************************************************)
importConnections(g, data) == [g EXCEPT !.connections = data.connections]

ImportConnections(data) ==
  /\ SetGraph(importConnections(Graph, data))
  /\ lastOp' = Op("import", 0, 0, "none")
  /\ UNCHANGED << mouseVars, viewport, zoomVars >>

(***************************************************************************)
(* Templates                                                               *)
(***************************************************************************)
RECURSIVE deleteNodes(_, _)
deleteNodes(g, ns) ==
  IF ns = << >> THEN g
  ELSE deleteNodes(NodeManager_deleteNode(g, Head(ns).id), Tail(ns))

\* TemplateManager.applyTemplate: fresh ids for the template's nodes
RECURSIVE LeastN(_, _)
LeastN(S, k) ==
  IF k = 0 THEN << >> ELSE << LeastOf(S) >> \o LeastN(S \ {LeastOf(S)}, k - 1)

TemplateNodes(template, newIds) ==
  [i \in 1..Len(template.nodes) |->
     [id |-> newIds[i], x |-> R(template.nodes[i].x),
      y |-> R(template.nodes[i].y), w |-> template.nodes[i].w,
      h |-> template.nodes[i].h]]

RECURSIVE createNodes(_, _)
createNodes(g, ns) ==
  IF ns = << >> THEN g
  ELSE createNodes(
         NodeManager_updateNode(NodeManager_createNode(g, Head(ns)),
                                Head(ns).id, << Head(ns).x, Head(ns).y >>),
         Tail(ns))

\* App.handleTemplateApply; createConnection(connectionData) is called with
\* one argument, reads endNode.id of undefined and throws: no template
\* connection is stored and the rest of the handler is skipped.
handleTemplateApply(g, templateNodes, templateConnections) ==
  LET g1 == deleteNodes(g, g.stNodes)
      g2 == createNodes(g1, templateNodes)
  IN [g2 EXCEPT !.feedback =
        IF Len(templateConnections) > 0 THEN "threw" ELSE "applied"]

ApplyTemplate(t) ==
  /\ Cardinality(FreeNodeIds(Graph)) >= Len(Templates[t].nodes)
  /\ LET newIds == LeastN(FreeNodeIds(Graph), Len(Templates[t].nodes))
         g == handleTemplateApply(Graph, TemplateNodes(Templates[t], newIds),
                                  Templates[t].connections)
     IN /\ SetGraph(g)
        /\ lastOp' = Op("template", t, 0, g.feedback)
  /\ UNCHANGED << mouseVars, viewport, zoomVars >>

Next ==
  \/ CreateNode
  \/ DeleteKey
  \/ \E nodeId \in 1..MaxNodeId : DeleteNodeEvent(nodeId)
  \/ \E p \in ScreenPts : MouseDown(p)
  \/ \E p \in ScreenPts : MouseMove(p)
  \/ MouseUp
  \/ ToggleConnectionMode
  \/ EscapeKey
  \/ \E data \in ImportData : ImportConnections(data)
  \/ \E t \in DOMAIN Templates : ApplyTemplate(t)

Spec == Init /\ [][Next]_vars

\* The editor driven by its user interface only (importConnections has no
\* caller in the application).
NextUI ==
  \/ CreateNode
  \/ DeleteKey
  \/ \E nodeId \in 1..MaxNodeId : DeleteNodeEvent(nodeId)
  \/ \E p \in ScreenPts : MouseDown(p)
  \/ \E p \in ScreenPts : MouseMove(p)
  \/ MouseUp
  \/ ToggleConnectionMode
  \/ EscapeKey
  \/ \E t \in DOMAIN Templates : ApplyTemplate(t)

SpecUI == Init /\ [][NextUI]_vars

(***************************************************************************)
(* CanvasManager: zoom, fit to screen and viewport restore                 *)
(***************************************************************************)
\* Screen points of wheel events and focus points of zoom requests.
FocusPts == {<<0, 100>>, <<450, 350>>}
\* Scales asked of setZoom (toolbar, keyboard, API), some out of range.
ZoomTargets == {Frac(1, 20), R(2), R(20)}
\* Progress (elapsed / duration, capped at 1) seen by an animation frame.
Progresses == {Frac(1, 2), R(1)}
\* Viewport objects handed to setViewport (a saved project's viewport).
SavedViewports ==
  { [scale |-> R(20)],
    [x |-> R(100), y |-> R(50), scale |-> Frac(1, 2)] }

\* The canvas manager's zoom state.
Canvas == [viewport |-> viewport, isAnimating |-> isAnimating, anim |-> anim]

\* The world coordinate under screen point p, NoPoint for no point.
WorldUnder(v, p) ==
  IF p = NoPoint THEN NoPoint ELSE screenToWorld(v, R(p[1]), R(p[2]))

\* focusPoint?.x || fallback
FocusOr(focusPoint, i, fallback) ==
  IF focusPoint = NoPoint THEN fallback ELSE JsOr(R(focusPoint[i]), fallback)

\* The animation closure keeps screenPoint and worldPoint.
animateZoomToPoint(c, targetScale, screenPoint, worldPoint) ==
  IF c.isAnimating THEN c
  ELSE [c EXCEPT
          !.isAnimating = TRUE,
          !.anim = [kind |-> "zoomToPoint",
                    startScale |-> c.viewport.scale,
                    startX |-> c.viewport.x, startY |-> c.viewport.y,
                    targetScale |-> targetScale,
                    targetX |-> RSub(R(screenPoint[1]),
                                     RMul(worldPoint[1], targetScale)),
                    targetY |-> RSub(R(screenPoint[2]),
                                     RMul(worldPoint[2], targetScale)),
                    progress |-> R(0),
                    focusPoint |-> screenPoint, worldFocus |-> worldPoint]]

\* The closure keeps centerX, centerY, worldCenter and focusPoint; worldFocus
\* is the world coordinate under focusPoint when the request was made (a
\* history value no frame reads).
animateZoom(c, targetScale, focusPoint) ==
  IF c.isAnimating THEN c
  ELSE LET centerX == FocusOr(focusPoint, 1, Frac(c.viewport.width, 2))
           centerY == FocusOr(focusPoint, 2, Frac(c.viewport.height, 2))
       IN [c EXCEPT
             !.isAnimating = TRUE,
             !.anim = [kind |-> "zoom",
                       startScale |-> c.viewport.scale,
                       targetScale |-> targetScale,
                       centerX |-> centerX, centerY |-> centerY,
                       worldCenter |-> screenToWorld(c.viewport, centerX, centerY),
                       progress |-> R(0),
                       focusPoint |-> focusPoint,
                       worldFocus |-> WorldUnder(c.viewport, focusPoint)]]

setZoom(c, scale, animate, focusPoint) ==
  LET targetScale == clampZoom(scale)
  IN IF animate /\ ~c.isAnimating
     THEN animateZoom(c, targetScale, focusPoint)
     ELSE LET centerX == FocusOr(focusPoint, 1, Frac(c.viewport.width, 2))
              centerY == FocusOr(focusPoint, 2, Frac(c.viewport.height, 2))
              worldCenter == screenToWorld(c.viewport, centerX, centerY)
          IN [c EXCEPT
                !.viewport.scale = targetScale,
                !.viewport.x = RSub(centerX, RMul(worldCenter[1], targetScale)),
                !.viewport.y = RSub(centerY, RMul(worldCenter[2], targetScale))]

\* newScale - scale > 0.1 in double arithmetic: when the exact difference is
\* 0.1 the rounding of the two operands decides (1.1 - 1 > 0.1 is true).
ExceedsTenth(d) ==
  IF RLt(Frac(1, 10), d) THEN {TRUE}
  ELSE IF d = Frac(1, 10) THEN BOOLEAN ELSE {FALSE}

handleWheel(c, p, zoomDirection, ctrlKey, shouldAnimate) ==
  LET worldPos == screenToWorld(c.viewport, R(p[1]), R(p[2]))
      factor == IF ctrlKey THEN Frac(105, 100) ELSE zoomFactor
      newScale == clampZoom(IF zoomDirection = 1
                            THEN RMul(c.viewport.scale, factor)
                            ELSE RDiv(c.viewport.scale, factor))
  IN IF newScale # c.viewport.scale
     THEN IF shouldAnimate /\ ~c.isAnimating
          THEN animateZoomToPoint(c, newScale, p, worldPos)
          ELSE [c EXCEPT
                  !.viewport.x = RSub(R(p[1]), RMul(worldPos[1], newScale)),
                  !.viewport.y = RSub(R(p[2]), RMul(worldPos[2], newScale)),
                  !.viewport.scale = newScale]
     ELSE c

\* One run of the animate callback of animateZoom / animateZoomToPoint.
animate(c, progress) ==
  LET a == c.anim
      rest == RSub(R(1), progress)
      easeProgress ==
        IF a.kind = "zoom"
        THEN RSub(R(1), RMul(rest, RMul(rest, rest)))
        ELSE RSub(R(1), RMul(rest, rest))
      currentScale == RAdd(a.startScale,
                           RMul(RSub(a.targetScale, a.startScale), easeProgress))
      v == IF a.kind = "zoom"
           THEN [c.viewport EXCEPT
                   !.scale = currentScale,
                   !.x = RSub(a.centerX, RMul(a.worldCenter[1], currentScale)),
                   !.y = RSub(a.centerY, RMul(a.worldCenter[2], currentScale))]
           ELSE [c.viewport EXCEPT
                   !.scale = currentScale,
                   !.x = RAdd(a.startX, RMul(RSub(a.targetX, a.startX), easeProgress)),
                   !.y = RAdd(a.startY, RMul(RSub(a.targetY, a.startY), easeProgress))]
  IN IF RLt(progress, R(1))
     THEN [c EXCEPT !.viewport = v, !.anim.progress = progress]
     ELSE [c EXCEPT !.viewport = v, !.anim = NoAnim, !.isAnimating = FALSE]

setViewport(v, given) ==
  [f \in DOMAIN v |-> IF f \in DOMAIN given THEN given[f] ELSE v[f]]

RECURSIVE RMinOf(_), RMaxOf(_)
RMinOf(s) == IF Len(s) = 1 THEN s[1] ELSE RMin(s[1], RMinOf(Tail(s)))
RMaxOf(s) == IF Len(s) = 1 THEN s[1] ELSE RMax(s[1], RMaxOf(Tail(s)))

getBounds(ns) ==
  IF Len(ns) = 0
  THEN [x |-> R(0), y |-> R(0), width |-> R(0), height |-> R(0)]
  ELSE LET minX == RMinOf([i \in 1..Len(ns) |-> ns[i].x])
           minY == RMinOf([i \in 1..Len(ns) |-> ns[i].y])
           maxX == RMaxOf([i \in 1..Len(ns) |-> RAdd(ns[i].x, R(ns[i].w))])
           maxY == RMaxOf([i \in 1..Len(ns) |-> RAdd(ns[i].y, R(ns[i].h))])
       IN [x |-> minX, y |-> minY,
           width |-> RSub(maxX, minX), height |-> RSub(maxY, minY)]

zoomToFit(v, bounds) ==
  LET padding == 50
      scaleX == RDiv(R(v.width - padding * 2), bounds.width)
      scaleY == RDiv(R(v.height - padding * 2), bounds.height)
      scale == RMin(RMin(scaleX, scaleY), R(1))
  IN [v EXCEPT
        !.scale = clampZoom(scale),
        !.x = RSub(RDiv(RSub(R(v.width), RMul(bounds.width, scale)), R(2)),
                   RMul(bounds.x, scale)),
        !.y = RSub(RDiv(RSub(R(v.height), RMul(bounds.height, scale)), R(2)),
                   RMul(bounds.y, scale))]

fitToScreen(v, ns) ==
  LET bounds == getBounds(ns)
  IN IF RLt(R(0), bounds.width) /\ RLt(R(0), bounds.height)
     THEN zoomToFit(v, bounds)
     ELSE v

SetCanvas(c) ==
  /\ viewport' = c.viewport
  /\ isAnimating' = c.isAnimating
  /\ anim' = c.anim

\* wheel event at screen point p
Wheel(p, zoomDirection, ctrlKey) ==
  /\ zoomOps < MaxZoomOps
  /\ LET before == WorldUnder(viewport, p)
         factor == IF ctrlKey THEN Frac(105, 100) ELSE zoomFactor
         newScale == clampZoom(IF zoomDirection = 1
                               THEN RMul(viewport.scale, factor)
                               ELSE RDiv(viewport.scale, factor))
     IN \E shouldAnimate \in ExceedsTenth(RAbs(RSub(newScale, viewport.scale))) :
          LET c == handleWheel(Canvas, p, zoomDirection, ctrlKey, shouldAnimate)
          IN /\ SetCanvas(c)
             /\ zoomed' = IF c.anim # anim THEN zoomed
                          ELSE [focusPoint |-> p, worldFocus |-> before]
             /\ zoomTarget' = newScale
  /\ zoomOps' = zoomOps + 1
  /\ lastOp' = Op("other", 0, 0, "none")
  /\ UNCHANGED << graphVars, mouseVars >>

\* setZoom called by the toolbar, the keyboard shortcuts or another module
SetZoom(scale, animateIt, focusPoint) ==
  /\ zoomOps < MaxZoomOps
  /\ LET c == setZoom(Canvas, scale, animateIt, focusPoint)
     IN /\ SetCanvas(c)
        /\ zoomed' = IF c.anim # anim THEN zoomed
                     ELSE IF focusPoint = NoPoint THEN NoZoomed
                     ELSE [focusPoint |-> focusPoint,
                           worldFocus |-> WorldUnder(viewport, focusPoint)]
        /\ zoomTarget' = clampZoom(scale)
  /\ zoomOps' = zoomOps + 1
  /\ lastOp' = Op("other", 0, 0, "none")
  /\ UNCHANGED << graphVars, mouseVars >>

\* requestAnimationFrame runs the scheduled animate callback
AnimationFrame(progress) ==
  /\ anim # NoAnim
  /\ RLt(anim.progress, progress)
  /\ SetCanvas(animate(Canvas, progress))
  /\ zoomed' = IF progress = R(1) /\ anim.focusPoint # NoPoint
               THEN [focusPoint |-> anim.focusPoint,
                     worldFocus |-> anim.worldFocus]
               ELSE NoZoomed
  /\ lastOp' = Op("other", 0, 0, "none")
  /\ UNCHANGED << graphVars, mouseVars, zoomOps, zoomTarget >>

\* App.fitToScreen: the fit-to-screen button
FitToScreen ==
  /\ zoomOps < MaxZoomOps
  /\ viewport' = fitToScreen(viewport, nodes)
  /\ zoomed' = NoZoomed
  /\ zoomTarget' = NoTarget
  /\ zoomOps' = zoomOps + 1
  /\ lastOp' = Op("other", 0, 0, "none")
  /\ UNCHANGED << graphVars, mouseVars, isAnimating, anim >>

\* CanvasManager.setViewport with a viewport object: App.loadProjectData hands
\* it the viewport of the project saved in localStorage
SetViewport(given) ==
  /\ zoomOps < MaxZoomOps
  /\ viewport' = setViewport(viewport, given)
  /\ zoomed' = NoZoomed
  /\ zoomTarget' = NoTarget
  /\ zoomOps' = zoomOps + 1
  /\ lastOp' = Op("other", 0, 0, "none")
  /\ UNCHANGED << graphVars, mouseVars, isAnimating, anim >>

NextView ==
  \/ \E t \in DOMAIN Templates : ApplyTemplate(t)
  \/ \E p \in FocusPts, zoomDirection \in {-1, 1}, ctrlKey \in BOOLEAN :
       Wheel(p, zoomDirection, ctrlKey)
  \/ \E scale \in ZoomTargets, animateIt \in BOOLEAN,
        focusPoint \in FocusPts \cup {NoPoint} :
       SetZoom(scale, animateIt, focusPoint)
  \/ \E progress \in Progresses : AnimationFrame(progress)
  \/ FitToScreen
  \/ \E given \in SavedViewports : SetViewport(given)

SpecView == Init /\ [][NextView]_vars

(***************************************************************************)
(* Presentation engines: flow analysis, slide order and recommendation.    *)
(* Engine nodes are [id, type, x, y]; connections [startNodeId, endNodeId].*)
(***************************************************************************)
\* Position given to the engine node with this id (ids 1 and 4 share x).
FlowNode(id) ==
  [id |-> id, type |-> "text", x |-> 100 * ((id + 1) % 3), y |-> 50 * id]

RECURSIVE SeqsUpTo(_, _)
\* All sequences over S of length at most n.
SeqsUpTo(S, n) ==
  IF n = 0 THEN {<< >>}
  ELSE LET shorter == SeqsUpTo(S, n - 1)
       IN shorter \cup {Append(s, e) : s \in shorter, e \in S}

\* Node lists handed to an engine: distinct ids, in any store order.
FlowNodeLists ==
  {[i \in 1..Len(s) |-> FlowNode(s[i])] :
     s \in {t \in SeqsUpTo(1..MaxFlowNodes, MaxFlowNodes) :
              \A i, j \in 1..Len(t) : i # j => t[i] # t[j]}}

FlowConnections ==
  SeqsUpTo({c \in [startNodeId : 1..MaxFlowNodes, endNodeId : 1..MaxFlowNodes] :
              c.startNodeId # c.endNodeId},
           MaxFlowConns)

\* Node lists with k nodes of an unsupported type followed by supported ones.
TypedNodes(k, types) ==
  [i \in 1..(k + Len(types)) |->
     [id |-> i, type |-> IF i <= k THEN "video" ELSE types[i - k],
      x |-> 100 * i, y |-> 0]]

RecommendInputs ==
  {[nodes |-> TypedNodes(k, types), connections |-> conns] :
     k \in 0..MaxUnsupported,
     types \in {<< >>, <<"text">>, <<"text", "image">>},
     conns \in {<< >>,
                <<[startNodeId |-> 1, endNodeId |-> 2]>>,
                <<[startNodeId |-> 1, endNodeId |-> 2],
                  [startNodeId |-> 1, endNodeId |-> 3]>>}}

EngineInputs ==
  {[nodes |-> ns, connections |-> cs] :
     ns \in FlowNodeLists, cs \in FlowConnections} \cup RecommendInputs

Adjacent_incoming(conns, nodeId) ==
  LET in == SelectSeq(conns, LAMBDA c : c.endNodeId = nodeId)
  IN [i \in 1..Len(in) |-> in[i].startNodeId]

\* adjacency.get(nodeId): the end nodes of its outgoing connections, in order
Adjacent(conns, nodeId) ==
  LET out == SelectSeq(conns, LAMBDA c : c.startNodeId = nodeId)
  IN [i \in 1..Len(out) |-> out[i].endNodeId]

\* The keys of the adjacency Map of detectSimpleLoops, in insertion order.
StartNodes(conns) ==
  LET first == SelectSeq([i \in 1..Len(conns) |-> i],
                         LAMBDA i : \A j \in 1..(i - 1) :
                                       conns[j].startNodeId # conns[i].startNodeId)
  IN [i \in 1..Len(first) |-> conns[first[i]].startNodeId]

RECURSIVE hasCycle(_, _, _), hasCycleAmong(_, _, _)
\* st = [visited, recursionStack, found]; found ends the search at once.
hasCycle(conns, node, st) ==
  IF node \in st.recursionStack THEN [st EXCEPT !.found = TRUE]
  ELSE IF node \in st.visited THEN st
  ELSE LET st1 == [st EXCEPT !.visited = @ \cup {node},
                             !.recursionStack = @ \cup {node}]
           st2 == hasCycleAmong(conns, Adjacent(conns, node), st1)
       IN IF st2.found THEN st2
          ELSE [st2 EXCEPT !.recursionStack = @ \ {node}]

\* for (const n of nodeIds) if (hasCycle(n)) return true
hasCycleAmong(conns, nodeIds, st) ==
  IF nodeIds = << >> \/ st.found THEN st
  ELSE hasCycleAmong(conns, Tail(nodeIds), hasCycle(conns, Head(nodeIds), st))

detectSimpleLoops_none(conns) == FALSE

detectSimpleLoops(conns) ==
  hasCycleAmong(conns, StartNodes(conns),
                [visited |-> {}, recursionStack |-> {}, found |-> FALSE]).found

analyzeConnectionFlow_perNode(ns, conns) ==
  IF Len(conns) = 0
  THEN [style |-> "spatial", branching |-> FALSE, loops |-> FALSE]
  ELSE LET nodeCount == Len(ns)
           connectionCount == Len(conns)
           density == Frac(connectionCount,
                           IF nodeCount > 1 THEN nodeCount ELSE 1)
           hasBranching == \E i \in 1..Len(conns) :
                              Len(Adjacent(conns, conns[i].startNodeId)) > 1
           hasLoops == detectSimpleLoops(conns)
           style1 == IF RLt(Frac(1, 2), density) \/ hasBranching
                     THEN "branching" ELSE "linear"
           style == IF hasLoops \/ RLt(R(1), density) THEN "network" ELSE style1
       IN [style |-> style, branching |-> hasBranching, loops |-> hasLoops]

analyzeConnectionFlow(ns, conns) ==
  IF Len(conns) = 0
  THEN [style |-> "spatial", branching |-> FALSE, loops |-> FALSE]
  ELSE LET nodeCount == Len(ns)
           connectionCount == Len(conns)
           density == Frac(connectionCount,
                           IF nodeCount - 1 > 1 THEN nodeCount - 1 ELSE 1)
           hasBranching == \E i \in 1..Len(conns) :
                              Len(Adjacent(conns, conns[i].startNodeId)) > 1
           hasLoops == detectSimpleLoops(conns)
           style1 == IF RLt(Frac(1, 2), density) \/ hasBranching
                     THEN "branching" ELSE "linear"
           style == IF hasLoops \/ RLt(R(1), density) THEN "network" ELSE style1
       IN [style |-> style, branching |-> hasBranching, loops |-> hasLoops]

\* incomingCount.get(id): connections that end at the node
IncomingCount(conns, id) ==
  Len(SelectSeq(conns, LAMBDA c : c.endNodeId = id))

RootNodes_all(ns, conns) == ns

\* nodes.filter(node => incomingCount.get(node.id) === 0)
RootNodes(ns, conns) ==
  SelectSeq(ns, LAMBDA n : IncomingCount(conns, n.id) = 0)

\* The comparator posA.x - posB.x || posA.y - posB.y is negative.
Before(a, b) == a.x < b.x \/ (a.x = b.x /\ a.y < b.y)

RECURSIVE SortByPosition(_)
\* Array.prototype.sort with that comparator (stable).
SortByPosition(ns) ==
  IF ns = << >> THEN << >>
  ELSE LET init == SortByPosition(SubSeq(ns, 1, Len(ns) - 1))
           e == ns[Len(ns)]
           keep == Cardinality({i \in 1..Len(init) : ~Before(e, init[i])
                                  /\ \A j \in 1..i : ~Before(e, init[j])})
       IN SubSeq(init, 1, keep) \o <<e>> \o SubSeq(init, keep + 1, Len(init))

RECURSIVE dfs(_, _, _, _), dfsEach(_, _, _, _)
\* result lists the ids pushed so far; visited is the set of those ids.
dfs_unknown(ns, conns, nodeId, result) ==
  IF nodeId \in Range(result) THEN result
  ELSE dfsEach(ns, conns, Adjacent(conns, nodeId), Append(result, nodeId))

dfs(ns, conns, nodeId, result) ==
  IF nodeId \in Range(result) \/ ~HasId(ns, nodeId) THEN result
  ELSE dfsEach(ns, conns, Adjacent(conns, nodeId), Append(result, nodeId))

dfsEach(ns, conns, nodeIds, result) ==
  IF nodeIds = << >> THEN result
  ELSE dfsEach(ns, conns, Tail(nodeIds), dfs(ns, conns, Head(nodeIds), result))

sortByConnectionFlow_rootsOnly(ns, conns) ==
  LET roots == SortByPosition(RootNodes(ns, conns))
  IN dfsEach(ns, conns, [i \in 1..Len(roots) |-> roots[i].id], << >>)

\* The ids of the nodes in presentation order.
sortByConnectionFlow(ns, conns) ==
  LET roots == SortByPosition(RootNodes(ns, conns))
      result == dfsEach(ns, conns, [i \in 1..Len(roots) |-> roots[i].id], << >>)
      rest == SelectSeq(ns, LAMBDA n : n.id \notin Range(result))
  IN result \o [i \in 1..Len(rest) |-> rest[i].id]

\* this.engines.keys(), in registration order
Engines == <<"reveal", "impress">>

getCapabilities(engineType) ==
  [nodeTypes |-> {"text", "image", "code"},
   overview |-> TRUE,
   fragments |-> (engineType = "reveal"),
   customCSS |-> TRUE]

\* issues: one per node whose type the engine does not support
validateNodes(engineType, ns) ==
  LET issues == SelectSeq(ns, LAMBDA n :
                            n.type \notin getCapabilities(engineType).nodeTypes)
  IN [isValid |-> Len(issues) = 0, issues |-> Len(issues)]

\* The score the loop body of getRecommendedEngine computes for one engine.
EngineScore(engineType, ns, conns) ==
  LET validation == validateNodes(engineType, ns)
      capabilities == getCapabilities(engineType)
      nodeTypes == {ns[i].type : i \in 1..Len(ns)}
      typeSupport == Cardinality(nodeTypes \cap capabilities.nodeTypes)
      style == analyzeConnectionFlow(ns, conns).style
  IN (IF validation.isValid THEN 10 ELSE 0 - validation.issues)
     + (IF capabilities.overview THEN 2 ELSE 0)
     + (IF capabilities.fragments THEN 1 ELSE 0)
     + (IF capabilities.customCSS THEN 1 ELSE 0)
     + typeSupport
     + (IF Len(conns) > 0 /\ engineType = "impress"
           /\ style \in {"branching", "network"} THEN 5 ELSE 0)
     + (IF Len(conns) > 0 /\ engineType = "reveal" /\ style = "linear"
        THEN 3 ELSE 0)

RECURSIVE BestOf(_, _, _, _)
\* for (const engineType of engines) if (score > bestScore) ...
BestOf(engines, ns, conns, best) ==
  IF engines = << >> THEN best
  ELSE LET score == EngineScore(Head(engines), ns, conns)
       IN BestOf(Tail(engines), ns, conns,
                 IF score > best.score
                 THEN [engine |-> Head(engines), score |-> score]
                 ELSE best)

getRecommendedEngine(ns, conns) ==
  BestOf(Engines, ns, conns, [engine |-> Engines[1], score |-> 0])

otherVars == << nodes, selectedNode, nmDragging, dragOffset, viewport,
                cmDragging, dragStart, isAnimating, anim, connections,
                isConnecting, connectionStart, connectionMode, stNodes,
                stConnections, stSelected, zoomOps, zoomed, zoomTarget,
                created, renderLoop, tsState >>

\* An engine is handed a node list and a connection list.
InitEngine ==
  /\ nodes = << >>
  /\ selectedNode = NoNode
  /\ nmDragging = FALSE
  /\ dragOffset = << R(0), R(0) >>
  /\ viewport = InitViewport
  /\ cmDragging = FALSE
  /\ dragStart = << 0, 0 >>
  /\ isAnimating = FALSE
  /\ anim = NoAnim
  /\ connections = << >>
  /\ isConnecting = FALSE
  /\ connectionStart = NoNode
  /\ connectionMode = FALSE
  /\ stNodes = << >>
  /\ stConnections = << >>
  /\ stSelected = NoNode
  /\ zoomOps = 0
  /\ zoomed = NoZoomed
  /\ zoomTarget = NoTarget
  /\ created = << >>
  /\ renderLoop = RenderLoopStarted(TRUE)
  /\ tsState = TsInitialState
  /\ \E in \in EngineInputs :
       lastOp = Op("input", in.nodes, in.connections, "none")

AnalyzeConnectionFlow ==
  /\ lastOp.op = "input"
  /\ lastOp' = Op("analyzeConnectionFlow", lastOp.a, lastOp.b,
                  analyzeConnectionFlow(lastOp.a, lastOp.b))
  /\ UNCHANGED otherVars

SortByConnectionFlow ==
  /\ lastOp.op = "input"
  /\ lastOp' = Op("sortByConnectionFlow", lastOp.a, lastOp.b,
                  sortByConnectionFlow(lastOp.a, lastOp.b))
  /\ UNCHANGED otherVars

GetRecommendedEngine ==
  /\ lastOp.op = "input"
  /\ lastOp' = Op("getRecommendedEngine", lastOp.a, lastOp.b,
                  getRecommendedEngine(lastOp.a, lastOp.b))
  /\ UNCHANGED otherVars

NextEngine ==
  \/ AnalyzeConnectionFlow
  \/ SortByConnectionFlow
  \/ GetRecommendedEngine

SpecEngine == InitEngine /\ [][NextEngine]_vars

(***************************************************************************)
(* CanvasManager.snapToGrid called on a world point                        *)
(***************************************************************************)
\* World coordinates in steps of one half.
SnapCoords == {Frac(k, 2) : k \in (0 - MaxSnapHalves)..MaxSnapHalves}

InitSnap ==
  /\ nodes = << >>
  /\ selectedNode = NoNode
  /\ nmDragging = FALSE
  /\ dragOffset = << R(0), R(0) >>
  /\ viewport = InitViewport
  /\ cmDragging = FALSE
  /\ dragStart = << 0, 0 >>
  /\ isAnimating = FALSE
  /\ anim = NoAnim
  /\ connections = << >>
  /\ isConnecting = FALSE
  /\ connectionStart = NoNode
  /\ connectionMode = FALSE
  /\ stNodes = << >>
  /\ stConnections = << >>
  /\ stSelected = NoNode
  /\ zoomOps = 0
  /\ zoomed = NoZoomed
  /\ zoomTarget = NoTarget
  /\ created = << >>
  /\ renderLoop = RenderLoopStarted(TRUE)
  /\ tsState = TsInitialState
  /\ \E x \in SnapCoords, y \in SnapCoords : lastOp = Op("input", x, y, "none")

SnapToGrid ==
  /\ lastOp.op = "input"
  /\ lastOp' = Op("snapToGrid", lastOp.a, lastOp.b, snapToGrid(lastOp.a, lastOp.b))
  /\ UNCHANGED otherVars

NextSnap == SnapToGrid

SpecSnap == InitSnap /\ [][NextSnap]_vars

(***************************************************************************)
(* The node and connection stores called directly (NodeManager and         *)
(* ConnectionManager public methods)                                       *)
(***************************************************************************)
Sizes == {<< DefaultWidth, DefaultHeight >>, << 0, 0 - 10 >>}

\* NodeManager.createNode({size})
CreateNodeSized(size) ==
  /\ FreeNodeIds(Graph) # {}
  /\ LET g == NodeManager_createNode(
                Graph, [id |-> NoNode, x |-> R(0), y |-> R(0),
                        w |-> size[1], h |-> size[2]])
     IN /\ SetGraph(g)
        /\ lastOp' = Op("createNode", 0, 0, g.ret)
  /\ UNCHANGED << mouseVars, viewport, zoomVars >>

\* NodeManager.updateNode(nodeId, {size})
UpdateNodeSize(nodeId, size) ==
  /\ LET g == updateNodeSize(Graph, nodeId, size)
     IN /\ SetGraph(g)
        /\ lastOp' = Op("updateNode", nodeId, 0, g.ret)
  /\ UNCHANGED << mouseVars, viewport, zoomVars >>

\* NodeManager.deleteNode(nodeId)
DeleteNode(nodeId) ==
  /\ LET g == NodeManager_deleteNode(Graph, nodeId)
     IN /\ SetGraph(g)
        /\ lastOp' = Op("NodeManager.deleteNode", nodeId, 0, g.ret)
  /\ UNCHANGED << mouseVars, viewport, zoomVars >>

\* ConnectionManager.deleteConnection(connectionId)
DeleteConnection(connectionId) ==
  /\ LET g == deleteConnection(Graph, connectionId)
     IN /\ SetGraph(g)
        /\ lastOp' = Op("deleteConnection", connectionId, 0, g.ret)
  /\ UNCHANGED << mouseVars, viewport, zoomVars >>

\* NodeManager.selectNode(node)
SelectNode(nodeId) ==
  /\ HasId(nodes, nodeId)
  /\ SetGraph(selectNode(Graph, nodeId))
  /\ lastOp' = Op("selectNode", 0, 0, "none")
  /\ UNCHANGED << mouseVars, viewport, zoomVars >>

\* ConnectionManager.startConnection(a) followed by completeConnection(b)
Connect(a, b) ==
  /\ HasId(nodes, a)
  /\ HasId(nodes, b)
  /\ LET g == completeConnection(startConnection(Graph, a), b)
     IN /\ Ids(g.connections) \ Ids(connections) \subseteq 1..MaxConnId
        /\ SetGraph(g)
        /\ lastOp' = Op("connect", 0, 0, g.feedback)
  /\ UNCHANGED << mouseVars, viewport, zoomVars >>

\* StateManager.state.settings (never changed by the application)
DefaultSettings == [gridSize |-> gridSize, snapToGrid |-> TRUE, theme |-> "dark"]

\* The state of a StateManager right after its constructor.
NewState ==
  [nodes |-> << >>, connections |-> << >>, selectedNode |-> NoNode,
   viewport |-> [x |-> R(0), y |-> R(0), scale |-> R(1), width |-> 0,
                 height |-> 0],
   presentationEngine |-> "reveal", settings |-> DefaultSettings]

\* The state of the application's StateManager.
CurrentState ==
  [NewState EXCEPT !.nodes = stNodes, !.connections = stConnections,
                   !.selectedNode = stSelected, !.viewport = viewport]

serialize(st) ==
  [nodes |-> st.nodes, selectedNode |-> st.selectedNode,
   viewport |-> st.viewport, presentationEngine |-> st.presentationEngine,
   settings |-> st.settings]

\* deserialize applied to a StateManager in state st; data as serialize
\* writes it
deserialize(st, data) ==
  [st EXCEPT !.nodes = data.nodes, !.viewport = data.viewport,
             !.presentationEngine = data.presentationEngine,
             !.settings = data.settings]

\* StateManager.serialize()
Serialize ==
  /\ lastOp' = Op("serialize", CurrentState, 0, serialize(CurrentState))
  /\ UNCHANGED otherVars

\* deserialize(data) of the data just serialized, on the same StateManager
\* or on a newly constructed one
Deserialize(fresh) ==
  /\ lastOp.op = "serialize"
  /\ lastOp' = Op("deserialize", lastOp.a, lastOp.out,
                  deserialize(IF fresh THEN NewState ELSE CurrentState,
                              lastOp.out))
  /\ UNCHANGED otherVars

NextNode ==
  \/ \E size \in Sizes : CreateNodeSized(size)
  \/ \E nodeId \in 1..MaxNodeId, size \in Sizes : UpdateNodeSize(nodeId, size)
  \/ \E nodeId \in 1..MaxNodeId : DeleteNode(nodeId)
  \/ \E connectionId \in 1..MaxConnId : DeleteConnection(connectionId)
  \/ \E nodeId \in 1..MaxNodeId : SelectNode(nodeId)
  \/ \E a \in 1..MaxNodeId : \E b \in (a + 1)..MaxNodeId : Connect(a, b)

SpecNode == Init /\ [][NextNode]_vars

\* The stores together with saving and restoring.
NextSave ==
  \/ NextNode
  \/ Serialize
  \/ \E fresh \in BOOLEAN : Deserialize(fresh)

SpecSave == Init /\ [][NextSave]_vars

(***************************************************************************)
(* TemplateManager.applyTemplate on built-in and imported templates        *)
(* Ids are numbers: `node-${index + 1}` is 0 - (index + 1), an id written  *)
(* by a template author is below -10, `node-${Date.now()}-${index}` is     *)
(* 100 * now + index.                                                      *)
(***************************************************************************)
Placeholder(i) == 0 - i
Authored(i) == 0 - (10 + i)
NewNodeId(now, index) == 100 * now + index

\* A template: k nodes, carrying ids of their author or none (NoNode), and
\* connections between the identifiers scheme(1) .. scheme(k).
TemplatesOf(k, scheme(_), withIds) ==
  {[nodes |-> [i \in 1..k |-> [id |-> IF withIds THEN scheme(i) ELSE NoNode]],
    connections |-> cs] :
     cs \in SeqsUpTo({c \in [startNodeId : {scheme(i) : i \in 1..k},
                             endNodeId : {scheme(i) : i \in 1..k}] :
                        c.startNodeId # c.endNodeId},
                     MaxTemplateConns)}

\* Built-in templates name their nodes by position; imported templates may
\* name them by ids of their own.
TemplateInputs ==
  UNION {TemplatesOf(k, Placeholder, FALSE) \cup TemplatesOf(k, Authored, TRUE) :
           k \in 1..MaxTemplateNodes}

applyTemplate(template, now) ==
  LET k == Len(template.nodes)
      \* nodeIdMap.get(id) || id
      Mapped(id) ==
        IF \E i \in 1..k : Placeholder(i) = id
        THEN NewNodeId(now, (CHOOSE i \in 1..k : Placeholder(i) = id) - 1)
        ELSE id
  IN [nodes |-> [i \in 1..k |->
                   [template.nodes[i] EXCEPT !.id = NewNodeId(now, i - 1)]],
      connections |-> [c \in 1..Len(template.connections) |->
                         [startNodeId |-> Mapped(template.connections[c].startNodeId),
                          endNodeId |-> Mapped(template.connections[c].endNodeId)]]]

InitTemplate ==
  /\ nodes = << >>
  /\ selectedNode = NoNode
  /\ nmDragging = FALSE
  /\ dragOffset = << R(0), R(0) >>
  /\ viewport = InitViewport
  /\ cmDragging = FALSE
  /\ dragStart = << 0, 0 >>
  /\ isAnimating = FALSE
  /\ anim = NoAnim
  /\ connections = << >>
  /\ isConnecting = FALSE
  /\ connectionStart = NoNode
  /\ connectionMode = FALSE
  /\ stNodes = << >>
  /\ stConnections = << >>
  /\ stSelected = NoNode
  /\ zoomOps = 0
  /\ zoomed = NoZoomed
  /\ zoomTarget = NoTarget
  /\ created = << >>
  /\ renderLoop = RenderLoopStarted(TRUE)
  /\ tsState = TsInitialState
  /\ \E template \in TemplateInputs, now \in 1..2 :
       lastOp = Op("input", template, now, "none")

ApplyTemplateData ==
  /\ lastOp.op = "input"
  /\ lastOp' = Op("applyTemplate", lastOp.a, lastOp.b,
                  applyTemplate(lastOp.a, lastOp.b))
  /\ UNCHANGED otherVars

NextTemplate == ApplyTemplateData

SpecTemplate == InitTemplate /\ [][NextTemplate]_vars

(***************************************************************************)
(* The render loop                                                         *)
(***************************************************************************)
\* NodeManager.renderNode: a node narrower or lower than 2 screen pixels is
\* skipped, and the drawing of any other node runs inside try / catch.
renderNode(node, scale) ==
  IF RLt(RMul(R(node.w), scale), R(2)) \/ RLt(RMul(R(node.h), scale), R(2))
  THEN "skipped" ELSE "drawn"

\* ConnectionManager.renderConnection: the first statement calls
\* nodeManager.getNodeById, a method NodeManager does not have.
renderConnection(connection) == "threw"

\* ConnectionManager.render: every stored connection is rendered in turn.
renderConnections(conns) ==
  IF \E i \in 1..Len(conns) : renderConnection(conns[i]) = "threw"
  THEN "threw" ELSE "drawn"

\* The frame callback of NodeManager.startRenderLoop: the nodes, then the
\* connections when window.app is there, then the request of the next frame,
\* which an exception of the statements before it skips.
renderFrame(loop, conns) ==
  LET out == IF loop.app THEN renderConnections(conns) ELSE "drawn"
  IN [loop |-> [loop EXCEPT !.scheduled = (out = "drawn")], out |-> out]

RenderFrame ==
  /\ renderLoop.scheduled
  /\ LET r == renderFrame(renderLoop, connections)
     IN /\ renderLoop' = r.loop
        /\ lastOp' = Op("renderFrame",
                        {renderNode(nodes[i], viewport.scale) : i \in 1..Len(nodes)},
                        Len(connections), r.out)
  /\ UNCHANGED << nodes, selectedNode, connections, stNodes, stConnections,
                  stSelected, isConnecting, connectionStart, connectionMode,
                  created, tsState, mouseVars, viewport, zoomVars >>

InitRender == \E app \in BOOLEAN : InitPage(app)

NextRender ==
  \/ NextUI
  \/ RenderFrame

SpecRender == InitRender /\ [][NextRender]_vars

(***************************************************************************)
(* Grid rendering                                                          *)
(***************************************************************************)
RCeil(p) == 0 - RFloor(RNeg(p))

\* Passes of for (v = start; v < end; v += step), step positive.
LoopPasses(start, end, step) ==
  IF RLt(start, end) THEN RCeil(RDiv(RSub(end, start), step)) ELSE 0

\* The minor lines of one direction: pan is viewport.x or .y, extent is
\* viewport.width or .height, size the grid spacing on screen.
minorLines(pan, extent, size) ==
  LET padding == RMul(size, R(2))
      start == RMul(R(RFloor(RDiv(RSub(RNeg(pan), padding), size))), size)
      end == RAdd(RAdd(start, R(extent)), RMul(padding, R(2)))
      step == RMax(size, RDiv(RSub(end, start), R(maxLines)))
      screen(k) == RAdd(RAdd(start, RMul(R(k), step)), pan)
  IN Cardinality({k \in 0..(LoopPasses(start, end, step) - 1) :
                    /\ RLe(RNeg(size), screen(k))
                    /\ RLe(screen(k), RAdd(R(extent), size))})

\* CanvasManager.renderMajorGrid, one direction.
majorLines(pan, extent, majorGridSize) ==
  LET start == RMul(R(RFloor(RDiv(RNeg(pan), majorGridSize))), majorGridSize)
      end == RAdd(RAdd(start, R(extent)), majorGridSize)
  IN LoopPasses(start, end, majorGridSize)

\* CanvasManager.renderGrid: the numbers of minor and of major lines drawn.
renderGrid(vp) ==
  LET size == RMul(R(gridSize), vp.scale)
  IN IF RLt(size, R(5)) \/ RLt(R(200), size)
     THEN [minor |-> 0, major |-> 0]
     ELSE [minor |-> minorLines(vp.x, vp.width, size)
                       + minorLines(vp.y, vp.height, size),
           major |-> IF RLt(R(20), size)
                     THEN majorLines(vp.x, vp.width, RMul(size, R(5)))
                            + majorLines(vp.y, vp.height, RMul(size, R(5)))
                     ELSE 0]

GridPans == {R(0 - 130), R(0), R(70)}
GridExtents == {0, CanvasWidth, MaxViewportSize}
GridScales == {Frac(1, 10), Frac(1, 2), R(1), Frac(3, 2), R(5), R(12)}
GridViewports ==
  [x : GridPans, y : GridPans, scale : GridScales,
   width : GridExtents, height : GridExtents]

InitGrid ==
  /\ nodes = << >>
  /\ selectedNode = NoNode
  /\ nmDragging = FALSE
  /\ dragOffset = << R(0), R(0) >>
  /\ viewport \in GridViewports
  /\ cmDragging = FALSE
  /\ dragStart = << 0, 0 >>
  /\ isAnimating = FALSE
  /\ anim = NoAnim
  /\ connections = << >>
  /\ isConnecting = FALSE
  /\ connectionStart = NoNode
  /\ connectionMode = FALSE
  /\ stNodes = << >>
  /\ stConnections = << >>
  /\ stSelected = NoNode
  /\ zoomOps = 0
  /\ zoomed = NoZoomed
  /\ zoomTarget = NoTarget
  /\ created = << >>
  /\ renderLoop = RenderLoopStarted(TRUE)
  /\ tsState = TsInitialState
  /\ lastOp = Op("input", 0, 0, "none")

RenderGrid ==
  /\ lastOp.op = "input"
  /\ lastOp' = Op("renderGrid", 0, 0, renderGrid(viewport))
  /\ UNCHANGED otherVars

NextGrid == RenderGrid

SpecGrid == InitGrid /\ [][NextGrid]_vars

(***************************************************************************)
(* Undo history of the TypeScript StateManager                             *)
(***************************************************************************)
Projects == 1..MaxProjects

\* Array.prototype.slice(-n)
LastN(s, n) == IF Len(s) <= n THEN s ELSE SubSeq(s, Len(s) - n + 1, Len(s))

addToHistory(st, project) ==
  [st EXCEPT !.history = [past |-> LastN(Append(st.history.past, project),
                                         maxHistory),
                          future |-> << >>]]

setProject(st, project) ==
  LET st1 == IF project # NoProject /\ st.currentProject # NoProject
             THEN addToHistory(st, st.currentProject)
             ELSE st
  IN [st1 EXCEPT !.currentProject = project]

undo(st) ==
  LET past == st.history.past
      future == st.history.future
  IN IF Len(past) = 0 \/ st.currentProject = NoProject
     THEN st
     ELSE [currentProject |-> past[Len(past)],
           history |-> [past |-> SubSeq(past, 1, Len(past) - 1),
                        future |-> << st.currentProject >> \o future]]

redo_keepPast(st) ==
  LET past == st.history.past
      future == st.history.future
  IN IF Len(future) = 0 \/ st.currentProject = NoProject
     THEN st
     ELSE [currentProject |-> future[1],
           history |-> [past |-> past,
                        future |-> Tail(future)]]

redo(st) ==
  LET past == st.history.past
      future == st.history.future
  IN IF Len(future) = 0 \/ st.currentProject = NoProject
     THEN st
     ELSE [currentProject |-> future[1],
           history |-> [past |-> Append(past, st.currentProject),
                        future |-> Tail(future)]]

\* The operations up to the last one, oldest first, at most three of them,
\* each with the state it left.
Trail == LastN(Append(lastOp.b, [op |-> lastOp.op, a |-> lastOp.a,
                                 state |-> tsState]), 3)

InitHistory ==
  /\ nodes = << >>
  /\ selectedNode = NoNode
  /\ nmDragging = FALSE
  /\ dragOffset = << R(0), R(0) >>
  /\ viewport = InitViewport
  /\ cmDragging = FALSE
  /\ dragStart = << 0, 0 >>
  /\ isAnimating = FALSE
  /\ anim = NoAnim
  /\ connections = << >>
  /\ isConnecting = FALSE
  /\ connectionStart = NoNode
  /\ connectionMode = FALSE
  /\ stNodes = << >>
  /\ stConnections = << >>
  /\ stSelected = NoNode
  /\ zoomOps = 0
  /\ zoomed = NoZoomed
  /\ zoomTarget = NoTarget
  /\ created = << >>
  /\ renderLoop = RenderLoopStarted(TRUE)
  /\ tsState = TsInitialState
  /\ lastOp = Op("constructor", NoProject, << >>, "none")

historyVars == << nodes, selectedNode, nmDragging, dragOffset, viewport,
                 cmDragging, dragStart, isAnimating, anim, connections,
                 isConnecting, connectionStart, connectionMode, stNodes,
                 stConnections, stSelected, zoomOps, zoomed, zoomTarget,
                 created, renderLoop >>

SetProject(project) ==
  /\ Len(tsState.history.past) + Len(tsState.history.future) < MaxHistory
  /\ tsState' = setProject(tsState, project)
  /\ lastOp' = Op("setProject", project, Trail, "none")
  /\ UNCHANGED historyVars

Undo ==
  /\ tsState' = undo(tsState)
  /\ lastOp' = Op("undo", NoProject, Trail, "none")
  /\ UNCHANGED historyVars

Redo ==
  /\ tsState' = redo(tsState)
  /\ lastOp' = Op("redo", NoProject, Trail, "none")
  /\ UNCHANGED historyVars

Reset ==
  /\ tsState' = TsInitialState
  /\ lastOp' = Op("reset", NoProject, Trail, "none")
  /\ UNCHANGED historyVars

NextHistory ==
  \/ \E project \in Projects \cup {NoProject} : SetProject(project)
  \/ Undo
  \/ Redo
  \/ Reset

SpecHistory == InitHistory /\ [][NextHistory]_vars

(***************************************************************************)
(* Properties of the node / connection graph                               *)
(***************************************************************************)
\* The node a connect-mode click at the current mouse position lands on.
ClickedNode ==
  LET w == screenToWorld(viewport, R(dragStart[1]), R(dragStart[2]))
  IN FirstHit(nodes, w[1], w[2])

\* A step that delivers a click to the connection manager while a
\* connection start is pending.
PendingClick == cmDragging /\ connectionMode /\ isConnecting /\ lastOp'.op = "click"

Connected(a, b) ==
  \E i \in 1..Len(connections) :
     \/ connections[i].startNodeId = a /\ connections[i].endNodeId = b
     \/ connections[i].startNodeId = b /\ connections[i].endNodeId = a

\* C1: both endpoints of every stored connection are ids of nodes that are
\* currently in the node store.
C1_EndpointsExist ==
  \A i \in 1..Len(connections) :
     /\ HasId(nodes, connections[i].startNodeId)
     /\ HasId(nodes, connections[i].endNodeId)

\* C2: once deleteNode(id) has succeeded, no connection of the connection
\* manager has id as its start or end node.
C2_CascadeDelete ==
  (lastOp.op = "deleteNode" /\ lastOp.out = "true") =>
     \A i \in 1..Len(connections) :
        /\ connections[i].startNodeId # lastOp.a
        /\ connections[i].endNodeId # lastOp.a

\* deleteNode succeeded on a node that connections referred to
C2_Witness ==
  /\ lastOp.op = "deleteNode" /\ lastOp.out = "true" /\ lastOp.b > 0
  /\ ~HasId(nodes, lastOp.a)

UniquePairs ==
  \A i, j \in 1..Len(connections) :
     i # j => {connections[i].startNodeId, connections[i].endNodeId}
              # {connections[j].startNodeId, connections[j].endNodeId}

\* C3: at most one connection exists per unordered pair of nodes, and a
\* connect gesture between two already connected nodes (in either direction)
\* leaves the connections unchanged and takes the connection-exists path.
C3_OnePerPair ==
  /\ []UniquePairs
  /\ [][(PendingClick /\ ClickedNode # NoNode /\ ClickedNode # connectionStart
         /\ Connected(connectionStart, ClickedNode))
        => (connections' = connections /\ lastOp'.out = "exists")]_vars

\* a gesture B -> A was refused while A -> B exists
C3_Witness ==
  /\ lastOp.op = "click" /\ lastOp.out = "exists"
  /\ \E i \in 1..Len(connections) :
        connections[i].startNodeId = lastOp.a /\ connections[i].endNodeId = lastOp.b

NoSelfLoop ==
  \A i \in 1..Len(connections) :
     connections[i].startNodeId # connections[i].endNodeId

\* C4: no stored connection starts and ends at the same node; completing a
\* pending connection on the node that started it creates no connection
\* (the click is handled like any other: the pending start is cleared).
C4_NoSelfLoop ==
  /\ []NoSelfLoop
  /\ [][(PendingClick /\ ClickedNode # NoNode /\ ClickedNode = connectionStart)
        => (connections' = connections /\ stConnections' = stConnections
            /\ ~isConnecting' /\ lastOp'.out = "ignored")]_vars

\* a pending connection was completed on its own start node
C4_Witness ==
  /\ lastOp.op = "click" /\ lastOp.a # NoNode /\ lastOp.a = lastOp.b
  /\ lastOp.out = "ignored"

NoConnection == [id |-> 0, startNodeId |-> NoNode, endNodeId |-> NoNode]

\* C5 as stated: createConnection yields no connection when both arguments
\* are the same node or the unordered pair is already connected.
C5_CreateConnectionRejects ==
  \A a, b \in Ids(nodes) :
     (a = b \/ Connected(a, b)) =>
        createConnection(generateConnectionId(Graph), a, b) = NoConnection

\* C5 amended: createConnection builds a connection for any two nodes
\* and stores nothing; the rejection is made by completeConnection, which
\* for a same-node or already connected pair adds nothing to the connection
\* manager or to the state store.
C5_GestureRejects ==
  /\ [](\A a, b \in Ids(nodes) :
          createConnection(0, a, b) # NoConnection)
  /\ [][(PendingClick /\ ClickedNode # NoNode
         /\ (ClickedNode = connectionStart
             \/ Connected(connectionStart, ClickedNode)))
        => (Len(connections') = Len(connections)
            /\ Ids(stConnections') = Ids(stConnections))]_vars

\* a completing click was rejected, as same-node or as duplicate
C5_Witness ==
  /\ lastOp.op = "click" /\ lastOp.b # NoNode /\ lastOp.a # NoNode
  /\ lastOp.out \in {"ignored", "exists"}
  /\ ~isConnecting

\* C6: node dragging and viewport panning are never active together: a
\* mousedown on a node starts the node drag only, a mousedown on empty
\* canvas starts panning only.
C6_DragXorPan == ~(nmDragging /\ cmDragging)

\* C7: in connect mode, a click on a node B that differs from the pending
\* start A and is not connected to it adds exactly the connection A -> B,
\* clears the pending start and leaves connect mode on.
C7_ConnectGesture ==
  [][(PendingClick /\ ClickedNode # NoNode /\ ClickedNode # connectionStart
      /\ ~Connected(connectionStart, ClickedNode))
     => (/\ Len(connections') = Len(connections) + 1
         /\ SubSeq(connections', 1, Len(connections)) = connections
         /\ connections'[Len(connections')].startNodeId = connectionStart
         /\ connections'[Len(connections')].endNodeId = ClickedNode
         /\ ~isConnecting' /\ connectionStart' = NoNode
         /\ connectionMode')]_vars

\* the second click of a gesture has just created a connection
C7_Witness ==
  /\ lastOp.op = "click" /\ lastOp.out = "created"
  /\ connections # << >>
  /\ connections[Len(connections)].startNodeId = lastOp.b
  /\ connections[Len(connections)].endNodeId = lastOp.a
  /\ connectionMode /\ ~isConnecting

\* C8 as stated: with a connection start pending, a click on empty canvas
\* or Escape leaves no pending start and connect mode off.
C8_CancelTurnsModeOff ==
  ((lastOp.op = "escape" \/ (lastOp.op = "click" /\ lastOp.out = "cancelled"))
    /\ lastOp.b # NoNode)
  => (~isConnecting /\ connectionStart = NoNode /\ ~connectionMode)

\* C8 amended: with a connection start pending, Escape and a click on empty
\* canvas both create no connection and clear the pending start; Escape
\* turns connect mode off, the click on empty canvas leaves it on.
C8_Cancel ==
  [][(isConnecting /\ connectionMode /\ lastOp'.op = "escape"
        => (connections' = connections /\ ~isConnecting'
            /\ connectionStart' = NoNode /\ ~connectionMode'))
     /\ (PendingClick /\ ClickedNode = NoNode
        => (connections' = connections /\ ~isConnecting'
            /\ connectionStart' = NoNode /\ connectionMode'
            /\ lastOp'.out = "cancelled"))]_vars

\* a pending start was cancelled by a click on empty canvas
C8_Witness ==
  /\ lastOp.op = "click" /\ lastOp.out = "cancelled" /\ lastOp.b # NoNode
  /\ lastOp.a = NoNode
  /\ ~isConnecting /\ connectionStart = NoNode /\ connectionMode

(***************************************************************************)
(* Properties of the viewport                                              *)
(***************************************************************************)
\* C9: viewport.scale lies within [minZoom, maxZoom] in every reachable
\* state, whichever operation last changed it.
C9_ScaleInRange ==
  RLe(minZoom, viewport.scale) /\ RLe(viewport.scale, maxZoom)

\* C10: when a zoom request carrying a focus point has completed, the world
\* coordinate under that screen point is the one that was there before the
\* request.
C10_FocusFixed ==
  zoomed # NoZoomed =>
    WorldUnder(viewport, zoomed.focusPoint) = zoomed.worldFocus

\* C11: a zoom request preempts an animation in flight: once no animation
\* is running, the viewport is at the target scale of the latest request.
C11_Preempts ==
  (zoomTarget # NoTarget /\ anim = NoAnim) => viewport.scale = zoomTarget

(***************************************************************************)
(* Properties of the presentation engines                                  *)
(***************************************************************************)
RECURSIVE PathWithin(_, _, _, _)
\* Following at least one and at most k connections leads from a to b.
PathWithin(conns, a, b, k) ==
  /\ k > 0
  /\ \E i \in 1..Len(conns) :
       /\ conns[i].startNodeId = a
       /\ \/ conns[i].endNodeId = b
          \/ PathWithin(conns, conns[i].endNodeId, b, k - 1)

HasDirectedCycle(conns) ==
  \E i \in 1..Len(conns) :
    PathWithin(conns, conns[i].startNodeId, conns[i].startNodeId, Len(conns))

OutDegree(conns, id) ==
  Cardinality({i \in 1..Len(conns) : conns[i].startNodeId = id})

\* connectionCount / max(nodeCount - 1, 1), compared as num > k * den
Density(ns, conns) ==
  [num |-> Len(conns), den |-> IF Len(ns) - 1 > 1 THEN Len(ns) - 1 ELSE 1]

ExpectedStyle(ns, conns) ==
  LET d == Density(ns, conns)
  IN IF Len(conns) = 0 THEN "spatial"
     ELSE IF HasDirectedCycle(conns) \/ d.num > d.den THEN "network"
     ELSE IF 2 * d.num > d.den
             \/ \E i \in 1..Len(conns) : OutDegree(conns, conns[i].startNodeId) > 1
          THEN "branching"
     ELSE "linear"

\* C12: analyzeConnectionFlow returns 'spatial' without connections, else
\* 'network' on a cycle or density > 1, else 'branching' on density > 0.5 or
\* a node with out-degree > 1, else 'linear'.
C12_Style ==
  lastOp.op = "analyzeConnectionFlow" =>
    lastOp.out.style = ExpectedStyle(lastOp.a, lastOp.b)

\* A cycle at density at most 1 was classified.
C12_Witness ==
  /\ lastOp.op = "analyzeConnectionFlow"
  /\ HasDirectedCycle(lastOp.b)
  /\ Density(lastOp.a, lastOp.b).num <= Density(lastOp.a, lastOp.b).den
  /\ lastOp.out.style = "network"

\* The engines whose score no other engine exceeds.
TopEngines(ns, conns) ==
  {i \in 1..Len(Engines) :
     \A j \in 1..Len(Engines) :
       EngineScore(Engines[j], ns, conns) <= EngineScore(Engines[i], ns, conns)}

\* C13: getRecommendedEngine returns the engine with the highest score, the
\* first registered one among equals, whatever the sign of the scores.
C13_HighestScore ==
  lastOp.op = "getRecommendedEngine" =>
    LET top == TopEngines(lastOp.a, lastOp.b)
    IN lastOp.out.engine = Engines[CHOOSE i \in top : \A j \in top : i <= j]

\* C14: on a chain a -> b -> c over exactly those three nodes,
\* sortByConnectionFlow returns a, b, c for every store order.
C14_ChainOrder ==
  lastOp.op = "sortByConnectionFlow" =>
    \A a, b, c \in Ids(lastOp.a) :
      (/\ Ids(lastOp.a) = {a, b, c}
       /\ Cardinality({a, b, c}) = 3
       /\ Len(lastOp.b) = 2
       /\ Range(lastOp.b) = {[startNodeId |-> a, endNodeId |-> b],
                              [startNodeId |-> b, endNodeId |-> c]})
      => lastOp.out = <<a, b, c>>

\* The chain 1 -> 2 -> 3 was sorted from the store order 3, 2, 1.
C14_Witness ==
  /\ lastOp.op = "sortByConnectionFlow"
  /\ [i \in 1..Len(lastOp.a) |-> lastOp.a[i].id] = <<3, 2, 1>>
  /\ lastOp.b = <<[startNodeId |-> 2, endNodeId |-> 3],
                  [startNodeId |-> 1, endNodeId |-> 2]>>
  /\ lastOp.out = <<1, 2, 3>>

\* The ids of the nodes a traversal from the zero-in-degree nodes reaches.
ReachedFromRoots(ns, conns) ==
  LET inside == SelectSeq(conns, LAMBDA c : HasId(ns, c.startNodeId)
                                             /\ HasId(ns, c.endNodeId))
      roots == {id \in Ids(ns) : \A i \in 1..Len(conns) : conns[i].endNodeId # id}
  IN roots \cup {id \in Ids(ns) :
                   \E r \in roots : PathWithin(inside, r, id, Len(inside))}

\* C15: sortByConnectionFlow puts the nodes no root leads to (a cycle without
\* entry point) after all nodes reached from roots, in store order.
C15_CycleLast ==
  lastOp.op = "sortByConnectionFlow" =>
    LET reached == ReachedFromRoots(lastOp.a, lastOp.b)
        rest == SelectSeq(lastOp.a, LAMBDA n : n.id \notin reached)
        k == Cardinality(reached)
    IN /\ Len(lastOp.out) = Len(lastOp.a)
       /\ {lastOp.out[i] : i \in 1..k} = reached
       /\ SubSeq(lastOp.out, k + 1, Len(lastOp.out))
            = [i \in 1..Len(rest) |-> rest[i].id]

\* The cycle 1 -> 2 -> 1, stored as 2, 3, 1, was put after the root 3.
C15_Witness ==
  /\ lastOp.op = "sortByConnectionFlow"
  /\ [i \in 1..Len(lastOp.a) |-> lastOp.a[i].id] = <<2, 3, 1>>
  /\ lastOp.b = <<[startNodeId |-> 1, endNodeId |-> 2],
                  [startNodeId |-> 2, endNodeId |-> 1]>>
  /\ lastOp.out = <<3, 2, 1>>

(***************************************************************************)
(* Properties of the node store                                            *)
(***************************************************************************)
\* C16: every node of the store has a positive width and a positive height.
C16_PositiveSize ==
  \A i \in 1..Len(nodes) : nodes[i].w > 0 /\ nodes[i].h > 0

\* The id a store operation was called with is in neither store.
UnknownId ==
  \/ /\ lastOp'.op \in {"updateNode", "NodeManager.deleteNode"}
     /\ ~HasId(nodes, lastOp'.a)
  \/ /\ lastOp'.op = "deleteConnection"
     /\ ~HasId(connections, lastOp'.a)

\* C17: updateNode, deleteNode and deleteConnection with an unknown id return
\* null or false and change neither nodes, connections nor selection.
C17_UnknownIdNoOp ==
  [][UnknownId =>
       /\ lastOp'.out \in {"null", "false"}
       /\ UNCHANGED << nodes, connections, selectedNode, stNodes,
                       stConnections, stSelected >>]_vars

\* deleteConnection was called with an unknown id while a node is selected and
\* another connection is stored.
C17_Witness ==
  /\ lastOp.op = "deleteConnection"
  /\ ~HasId(connections, lastOp.a)
  /\ lastOp.out = "false"
  /\ connections # << >>
  /\ selectedNode # NoNode

(***************************************************************************)
(* Properties of grid snapping                                             *)
(***************************************************************************)
GridMultiples ==
  {k * gridSize : k \in (0 - MaxSnapHalves)..MaxSnapHalves}

\* |x - m| is less than 30% of the grid size
NearMultiple(x, m) ==
  RLt(RMul(R(10), RAbs(RSub(x, R(m)))), R(3 * gridSize))

\* The grid multiple closest to x (the upper one half-way between two).
NearestMultiple(x) ==
  CHOOSE m \in GridMultiples :
    /\ RLe(RSub(R(2 * m), R(gridSize)), RMul(R(2), x))
    /\ RLt(RMul(R(2), x), RAdd(R(2 * m), R(gridSize)))

\* C19 as stated: the point moves to the nearest grid point when it lies
\* within 30% of the grid size of it, and is returned unchanged otherwise.
C19_SnapPoint ==
  lastOp.op = "snapToGrid" =>
    LET gx == NearestMultiple(lastOp.a)
        gy == NearestMultiple(lastOp.b)
    IN IF NearMultiple(lastOp.a, gx) /\ NearMultiple(lastOp.b, gy)
       THEN lastOp.out = << R(gx), R(gy) >>
       ELSE lastOp.out = << lastOp.a, lastOp.b >>

\* What one coordinate becomes: the grid multiple closer than 30% of the grid
\* size, the coordinate itself when there is none.
SnappedCoord(x) ==
  IF \E m \in GridMultiples : NearMultiple(x, m)
  THEN R(CHOOSE m \in GridMultiples : NearMultiple(x, m))
  ELSE x

\* C19, per coordinate: each coordinate on its own moves to the grid multiple
\* that is closer than 30% of the grid size, and is kept otherwise.
C19_SnapPerAxis ==
  lastOp.op = "snapToGrid" =>
    lastOp.out = << SnappedCoord(lastOp.a), SnappedCoord(lastOp.b) >>

\* x = 1 snapped to 0 while y = 10 stayed.
C19_Witness ==
  /\ lastOp.op = "snapToGrid"
  /\ lastOp.a = R(1)
  /\ lastOp.b = R(10)
  /\ lastOp.out = << R(0), R(10) >>

(***************************************************************************)
(* Properties of saving and restoring                                      *)
(***************************************************************************)
\* C20: serialize returns nodes, connections, viewport and settings, and
\* deserialize of that output restores the same four.
C20_RoundTrip ==
  /\ lastOp.op = "serialize" =>
       /\ {"nodes", "connections", "viewport", "settings"}
            \subseteq DOMAIN lastOp.out
       /\ lastOp.out.nodes = lastOp.a.nodes
  /\ lastOp.op = "deserialize" =>
       /\ lastOp.out.nodes = lastOp.a.nodes
       /\ lastOp.out.connections = lastOp.a.connections
       /\ lastOp.out.viewport = lastOp.a.viewport
       /\ lastOp.out.settings = lastOp.a.settings

(***************************************************************************)
(* Properties of hit testing                                               *)
(***************************************************************************)
\* The ids of the nodes whose rectangle contains the world point (x, y).
NodesAt(x, y) ==
  {nodes[i].id : i \in {j \in 1..Len(nodes) : isPointInNode(x, y, nodes[j])}}

\* The node of S that was created last.
MostRecent(S) ==
  created[CHOOSE i \in 1..Len(created) :
            /\ created[i] \in S
            /\ \A j \in (i + 1)..Len(created) : created[j] \notin S]

\* C18: a mouse press selects, through getNodeAtPosition, the most recently
\* created of the nodes under the pointer, and nothing when there is none.
C18_TopmostHit ==
  [][(~cmDragging /\ cmDragging') =>
       LET w == screenToWorld(viewport, R(dragStart'[1]), R(dragStart'[2]))
           hit == NodesAt(w[1], w[2])
       IN selectedNode' = IF hit = {} THEN NoNode ELSE MostRecent(hit)]_vars

\* The pointer is pressed over two overlapping nodes, the later created one has
\* the smaller id and is the one selected.
C18_Witness ==
  /\ cmDragging
  /\ created = << 2, 1 >>
  /\ LET w == screenToWorld(viewport, R(dragStart[1]), R(dragStart[2]))
     IN NodesAt(w[1], w[2]) = {1, 2}
  /\ selectedNode = 1

(***************************************************************************)
(* Properties of template application                                      *)
(***************************************************************************)
\* Every identifier the template's author wrote: node ids, positional names
\* and connection endpoints.
TemplateAuthoredIds(template) ==
  {template.nodes[i].id : i \in 1..Len(template.nodes)} \cup
  {Placeholder(i) : i \in 1..Len(template.nodes)} \cup
  EndpointIds(template.connections)

\* The position of the template node an identifier of the template names.
NamedNode(template, id) ==
  CHOOSE i \in 1..Len(template.nodes) :
    id = Placeholder(i) \/ id = template.nodes[i].id

\* C21: applying a template gives the created nodes unique new ids, none of
\* them written by the template's author, and every template connection gets
\* the new ids of the nodes it named.
C21_Remapped ==
  lastOp.op = "applyTemplate" =>
    LET template == lastOp.a
        data == lastOp.out
    IN /\ \A i, j \in 1..Len(data.nodes) :
            i # j => data.nodes[i].id # data.nodes[j].id
       /\ \A i \in 1..Len(data.nodes) :
            data.nodes[i].id \notin TemplateAuthoredIds(template)
       /\ \A c \in 1..Len(data.connections) :
            /\ data.connections[c].startNodeId =
                 data.nodes[NamedNode(template,
                                      template.connections[c].startNodeId)].id
            /\ data.connections[c].endNodeId =
                 data.nodes[NamedNode(template,
                                      template.connections[c].endNodeId)].id

\* C22: a frame of the render loop never throws out of the loop and always
\* requests the next frame, also when connections exist or a node is too
\* small on screen to be drawn.
C22_LoopKeepsRunning ==
  /\ renderLoop.scheduled
  /\ lastOp.op = "renderFrame" => lastOp.out = "drawn"

\* C23: for any viewport size, pan offset and scale, one grid render computes
\* no more lines, minor and major together, than a fixed ceiling: the cap of
\* maxLines the code applies to a family of lines, for the four families.
GridLineCeiling == 4 * maxLines

C23_GridLinesCapped ==
  lastOp.op = "renderGrid" => lastOp.out.minor + lastOp.out.major <= GridLineCeiling

\* The minor lines alone do stay under the cap.
C23_MinorLinesCapped ==
  lastOp.op = "renderGrid" => lastOp.out.minor <= 2 * maxLines

\* The last two operations of the trail were setProject(p1) and then
\* setProject(p2), both with a project.
AfterTwoProjects(trail) ==
  /\ Len(trail) >= 2
  /\ trail[Len(trail) - 1].op = "setProject" /\ trail[Len(trail) - 1].a # NoProject
  /\ trail[Len(trail)].op = "setProject" /\ trail[Len(trail)].a # NoProject

\* C24: after setProject(p1) and then setProject(p2), undo makes p1 the
\* current project, and a redo right after that undo makes p2 current again,
\* with history.past and history.future as they were before the undo.
C24_UndoRedo ==
  /\ lastOp.op = "undo" /\ AfterTwoProjects(lastOp.b)
       => tsState.currentProject = lastOp.b[Len(lastOp.b) - 1].a
  /\ lastOp.op = "redo" /\ Len(lastOp.b) = 3 /\ lastOp.b[3].op = "undo"
       /\ AfterTwoProjects(SubSeq(lastOp.b, 1, 2))
       => /\ tsState.currentProject = lastOp.b[2].a
          /\ tsState.history = lastOp.b[2].state.history

C24_Witness ==
  /\ lastOp.op = "redo" /\ Len(lastOp.b) = 3 /\ lastOp.b[3].op = "undo"
  /\ AfterTwoProjects(SubSeq(lastOp.b, 1, 2))
  /\ lastOp.b[1].a = 1 /\ lastOp.b[2].a = 2
  /\ lastOp.b[3].state.currentProject = 1
  /\ lastOp.b[3].state.history.future = << 2 >>
  /\ tsState.currentProject = 2
  /\ tsState.history.past # << >>

\* C25: sortByConnectionFlow returns every input node exactly once, whatever
\* the connections: cycles, nodes reached along several paths, connections
\* that name ids not in the node list.
C25_Permutation ==
  lastOp.op = "sortByConnectionFlow" =>
    /\ Len(lastOp.out) = Len(lastOp.a)
    /\ \A i \in 1..Len(lastOp.a) :
         Cardinality({j \in 1..Len(lastOp.out) : lastOp.out[j] = lastOp.a[i].id}) = 1

\* Two nodes were sorted, each with a connection that ends at an id which is
\* not in the node list.
C25_Witness ==
  /\ lastOp.op = "sortByConnectionFlow"
  /\ Len(lastOp.out) = 2
  /\ Len(lastOp.b) = 2
  /\ \A i \in 1..2 : lastOp.b[i].endNodeId \notin Ids(lastOp.a)
  /\ lastOp.b[1].startNodeId # lastOp.b[2].startNodeId
  /\ {lastOp.b[1].startNodeId, lastOp.b[2].startNodeId} = Ids(lastOp.a)

\* The connections join nodes of the given list.
WithinNodes(ns, conns) ==
  \A i \in 1..Len(conns) :
    conns[i].startNodeId \in Ids(ns) /\ conns[i].endNodeId \in Ids(ns)

\* No node has more than one incoming connection.
OneParent(ns, conns) ==
  \A id \in Ids(ns) : IncomingCount(conns, id) <= 1

\* The connections are one chain n1 -> n2 -> ... -> nk through all the k >= 2
\* nodes.
SimpleChain(ns, conns) ==
  /\ Len(ns) >= 2
  /\ Len(conns) = Len(ns) - 1
  /\ WithinNodes(ns, conns)
  /\ OneParent(ns, conns)
  /\ \A id \in Ids(ns) : OutDegree(conns, id) <= 1
  /\ ~HasDirectedCycle(conns)

\* C26 (as claimed): for a simple chain through all k >= 2 nodes
\* analyzeConnectionFlow returns the style 'linear'.
C26_ChainIsLinear ==
  lastOp.op = "analyzeConnectionFlow" /\ SimpleChain(lastOp.a, lastOp.b)
    => lastOp.out.style = "linear"

\* C26 (amended): for a simple chain through all k >= 2 nodes
\* analyzeConnectionFlow returns the style 'branching', without branching and
\* without loops: the density of such a chain is 1, above the 0.5 of 'linear'.
C26_ChainIsBranching ==
  lastOp.op = "analyzeConnectionFlow" /\ SimpleChain(lastOp.a, lastOp.b)
    => /\ lastOp.out.style = "branching"
       /\ ~lastOp.out.branching
       /\ ~lastOp.out.loops

C26_Witness ==
  /\ lastOp.op = "analyzeConnectionFlow"
  /\ SimpleChain(lastOp.a, lastOp.b)
  /\ Len(lastOp.a) = 3
  /\ lastOp.out.style = "branching"

\* The place of a node in the returned order.
PlaceOf(order, id) == CHOOSE j \in 1..Len(order) : order[j] = id

StartsBeforeEnds(order, conns) ==
  \A i \in 1..Len(conns) :
    PlaceOf(order, conns[i].startNodeId) < PlaceOf(order, conns[i].endNodeId)

\* C27 (as claimed): when the connections form an acyclic graph over the
\* given nodes, sortByConnectionFlow places the start node of every connection
\* before its end node.
C27_TopologicalOrder ==
  (/\ lastOp.op = "sortByConnectionFlow"
   /\ WithinNodes(lastOp.a, lastOp.b)
   /\ ~HasDirectedCycle(lastOp.b))
    => StartsBeforeEnds(lastOp.out, lastOp.b)

\* C27 (amended): when the connections form an acyclic graph over the given
\* nodes in which no node has more than one incoming connection,
\* sortByConnectionFlow places the start node of every connection before its
\* end node.
C27_ForestOrder ==
  (/\ lastOp.op = "sortByConnectionFlow"
   /\ WithinNodes(lastOp.a, lastOp.b)
   /\ OneParent(lastOp.a, lastOp.b)
   /\ ~HasDirectedCycle(lastOp.b))
    => StartsBeforeEnds(lastOp.out, lastOp.b)

\* A root with two children was sorted from a store order that lists the
\* children first.
C27_Witness ==
  /\ lastOp.op = "sortByConnectionFlow"
  /\ [i \in 1..Len(lastOp.a) |-> lastOp.a[i].id] = <<2, 3, 1>>
  /\ lastOp.b = <<[startNodeId |-> 1, endNodeId |-> 3],
                  [startNodeId |-> 1, endNodeId |-> 2]>>
  /\ lastOp.out = <<1, 3, 2>>

\* C28: in every reachable state the connection manager's map and the state
\* store's map hold the same connection ids, whatever added or removed them:
\* a connect gesture, a cascade delete, clearAllConnections, importConnections
\* or the application of a template.
C28_SameConnections == Ids(connections) = Ids(stConnections)

\* C29: for every click position the hit test of connect mode,
\* ConnectionManager.findNodeAtPosition, selects the same node as the node
\* store's getNodeAtPosition, also where several nodes overlap.
C29_SameHit ==
  \A p \in ScreenPts :
    LET w == screenToWorld(viewport, R(p[1]), R(p[2]))
    IN findNodeAtPosition(nodes, w[1], w[2]) = getNodeAtPosition(nodes, w[1], w[2])

\* C30: after a template with k connections is applied, the application has
\* completed without throwing and the connection manager holds exactly those
\* k connections, between the new nodes, and none of the replaced project.
C30_TemplateConnections ==
  lastOp.op = "template" =>
    /\ lastOp.out = "applied"
    /\ Len(connections) = Len(Templates[lastOp.a].connections)
    /\ \A i \in 1..Len(connections) :
         /\ HasId(nodes, connections[i].startNodeId)
         /\ HasId(nodes, connections[i].endNodeId)

====
